---- MODULE Spec2Model ----
(***************************************************************************)
(* Verification model of the artsapp-builder-api revision/content core.     *)
(*                                                                         *)
(* Part 1 (Spec, SpecSeq): the relational store (Key, Revision, Revisions)  *)
(* and the request handlers that read and write it, one action per await   *)
(* of a handler, so that requests interleave exactly where the code yields.*)
(* Spec interleaves the lifecycle handlers; SpecSeq runs one request at a  *)
(* time; SpecMedia adds the media handlers that rewrite a revision row in  *)
(* place; SpecRepoint is the key update racing a status update.            *)
(*                                                                         *)
(* Part 2 (SpecTaxon, SpecReparent): content.taxa and the create-taxon and *)
(* update-taxon handlers, each request one action.                         *)
(*                                                                         *)
(* Part 3 (SpecPremise): content.characters and the state-removal handler  *)
(* that prunes the logical premises.                                       *)
(*                                                                         *)
(* Part 4 (SpecDelete, SpecCharacter, SpecStatements, SpecNumerical): the  *)
(* media document, the deletions, and the character and statement rows.    *)
(*                                                                         *)
(* Part 5 (SpecEdit, SpecAttach, SpecNames, SpecTaxonStatements): editing  *)
(* a key, concurrent attachments, modifyTaxonNames and the statements of   *)
(* an updated taxon.                                                       *)
(*                                                                         *)
(* Part 6 (SpecPermission): the isPermittedKey middleware.                 *)
(***************************************************************************)
EXTENDS Integers, Sequences, FiniteSets, TLC

\* ---------------------------------------------------------------- bounds
NumKeys == 2
MaxRevisions == 2
NumRequests == 2
MaxMedia == 2

KeyIds == 1..NumKeys
RevisionIds == 1..MaxRevisions
Requests == 1..NumRequests
MediaIds == 1..MaxMedia

\* body('status') validator of PUT /revisions/status/:revisionId
StatusValues == {"DRAFT", "REVIEW", "ACCEPTED"}

VARIABLES
    Key,        \* Key table: key id -> [revisionId], 0 is a null revisionId
    Revision,   \* Revision table: sequence indexed by revision id
    Revisions,  \* join table: set of [keyId, revisionId]
    Media,      \* Media table: the number of rows created, ids 1..Media
    req,        \* the requests in flight: request -> locals and position
    last,       \* the last response sent: [op, res]
    taxa,       \* content.taxa of the revision the next taxon request names
    Taxon,      \* Taxon table: the number of rows created, ids 1..Taxon
    taxonRes,   \* the status code of the last taxon request, 0 before any
    characters, \* content.characters of the revision the state requests name
    statesReq,  \* the last state-removal request: [states, res, cleared,
                \* pruned], with the ids of the characters whose premise it
                \* made undefined and of those it left a shorter premise;
                \* res 0 before any
    entities,   \* the media lists of one taxon, one character and one state
                \* of a revision's content: kind -> media
    revisionMedia,  \* the revision's media column: [mediaElements, persons]
    mediaReq,   \* the last media request on the revision: [op, res]; res 0
                \* before any
    mediaStore, \* the files of a key: [rows, info, keyMedia, disk], the Media,
                \* MediaInfo and KeyMedia rows and the files on disk
    del,        \* the deleteMedia calls: media id -> [pc, pending, errors]
    delReq,     \* the DELETE /media/key/:keyId request: [pc, media, res]
    Character,  \* Character table: the number of rows created, ids 1..Character
    CharacterState, \* CharacterState table: state id -> characterId, 0 is null
    statements, \* content.statements of the revision the character requests name
    charReq,    \* the last character request: [op, id, res, removed, purged],
                \* with the character id, the number of statements it removed
                \* and whether it changed a premise; res 0 before any
    namesCall,  \* the last modifyTaxonNames call: [taxon, body, valid, result],
                \* the taxon object before and after it
    User,       \* User, role_permissions and user_workgroups tables: user id ->
                \* [permissions, workgroups], what the user's role grants and
                \* the workgroups the user is in
    KeyInfo,    \* the Key rows the middleware reads: key id ->
                \* [createdBy, workgroupId], 0 is a null workgroupId
    Editors,    \* Editors table: set of [keyId, userId]
    auth        \* the last request through isPermittedKey: [user, permission,
                \* keyId, next, res], next when the handler was let run, res
                \* the status code the middleware sent, 0 when none

storeVars == <<Key, Revision, Revisions, Media, req, last>>

taxonVars == <<taxa, Taxon, taxonRes>>

characterVars == <<characters, statesReq>>

mediaDocVars == <<entities, revisionMedia, mediaReq>>

deletionVars == <<mediaStore, del, delReq>>

characterRowVars == <<Character, CharacterState, statements, charReq>>

permissionVars == <<User, KeyInfo, Editors, auth>>

\* the variables of the parts that follow the premises
restVars == <<mediaDocVars, deletionVars, characterRowVars, namesCall, permissionVars>>

\* what a media request on a revision leaves alone, the store apart
exceptMediaDoc == <<taxonVars, characterVars, deletionVars, characterRowVars,
                    namesCall, permissionVars>>

\* what a media deletion leaves alone, the store apart
exceptDeletion == <<taxonVars, characterVars, mediaDocVars, characterRowVars,
                    namesCall, permissionVars>>

\* what a character request leaves alone
exceptCharacters == <<storeVars, taxonVars, statesReq, mediaDocVars, deletionVars,
                      namesCall, permissionVars>>

\* a key's content before its first taxon: no taxa, no Taxon rows
InitTaxa ==
    /\ taxa = <<>>
    /\ Taxon = 0
    /\ taxonRes = 0

NoStatesReq == [states |-> <<>>, res |-> 0, cleared |-> {}, pruned |-> {}]

\* a key's content before its first character
InitCharacters ==
    /\ characters = <<>>
    /\ statesReq = NoStatesReq

EntityKinds == {"taxon", "character", "state"}

NoMediaReq == [op |-> "none", res |-> 0]

\* a revision before its first media file: no entity has a media property and
\* the media column has neither elements nor persons (an absent list and an
\* empty one are both <<>>: every reader below starts from [] when it is absent)
InitMediaDoc ==
    /\ entities = [kind \in EntityKinds |-> <<>>]
    /\ revisionMedia = [mediaElements |-> <<>>, persons |-> <<>>]
    /\ mediaReq = NoMediaReq

\* no file of the key in the store
NoDeletable ==
    /\ mediaStore = [rows |-> <<>>, info |-> {}, keyMedia |-> {}, disk |-> {}]
    /\ del = <<>>
    /\ delReq = [pc |-> "off", media |-> {}, res |-> 0]

\* the record of a request that removed no statement and changed no premise
CharRes(op, id, res) ==
    [op |-> op, id |-> id, res |-> res, removed |-> 0, purged |-> FALSE]

NoCharReq == CharRes("none", 0, 0)

\* a key before its first character and state rows, without statements
NoCharacterRows ==
    /\ Character = 0
    /\ CharacterState = <<>>
    /\ statements = <<>>
    /\ charReq = NoCharReq

NoNamesCall == [taxon |-> <<>>, body |-> <<>>, valid |-> TRUE, result |-> <<>>]

NoAuth == [user |-> 0, permission |-> "none", keyId |-> 0, next |-> FALSE, res |-> 0]

\* no modifyTaxonNames call made, no user, no key row, no request
NoCalls ==
    /\ namesCall = NoNamesCall
    /\ User = <<>>
    /\ KeyInfo = <<>>
    /\ Editors = {}
    /\ auth = NoAuth

InitRest ==
    /\ InitMediaDoc
    /\ NoDeletable
    /\ NoCharacterRows
    /\ NoCalls

\* ------------------------------------------------------- request records
Idle == [pc |-> "idle", keyId |-> 0, revisionId |-> 0, keyRevisionId |-> 0,
         mediaId |-> 0, mediaElements |-> <<>>, baseId |-> 0]

Off == [Idle EXCEPT !.pc = "off"]

Free(p) == req[p].pc = "idle"

Sent(op, code) == [op |-> op, res |-> code]

\* the store once the keys of `keys` were created (POST /keys: Key.create
\* sets no revisionId) and before any revision is; the server takes the
\* requests of `slots`, the others never arrive
InitStore(keys, slots) ==
    /\ Key = [k \in keys |-> [revisionId |-> 0]]
    /\ Revision = <<>>
    /\ Revisions = {}
    /\ Media = 0
    /\ req = [p \in Requests |-> IF p \in slots THEN Idle ELSE Off]
    /\ last = Sent("none", 0)
    /\ InitTaxa
    /\ InitCharacters
    /\ InitRest

\* ------------------------------------------------ POST /revisions (create)
\* const key = await Key.findByPk(req.body.keyId)
PostRevision_findKey(p, k) ==
    /\ Free(p)
    /\ k \in DOMAIN Key
    /\ req' = [req EXCEPT ![p] = [Idle EXCEPT !.pc = "cr_create", !.keyId = k,
                   !.keyRevisionId = Key[k].revisionId]]
    /\ UNCHANGED <<Key, Revision, Revisions, Media, last>>
    /\ UNCHANGED <<taxonVars, characterVars, restVars>>

\* const revision = await Revision.create({ content, media, status: 'DRAFT' }),
\* with the media the caller handed over (none in POST /revisions here)
createRevision_create(p) ==
    /\ req[p].pc = "cr_create"
    /\ Len(Revision) < MaxRevisions
    /\ Revision' = Append(Revision, [status |-> "DRAFT",
                                     mediaElements |-> req[p].mediaElements])
    /\ req' = [req EXCEPT ![p].pc = "cr_link", ![p].revisionId = Len(Revision) + 1]
    /\ UNCHANGED <<Key, Revisions, Media, last>>
    /\ UNCHANGED <<taxonVars, characterVars, restVars>>

\* a createRevision that promotes every revision it creates
KeyHasNoRevision_Always(r) == TRUE

\* the test createRevision makes on the key object it was handed
KeyHasNoRevision(r) == r.keyRevisionId = 0

\* await Revisions.create({ keyId, revisionId }); if (!key.revisionId) ...
createRevision_link(p) ==
    /\ req[p].pc = "cr_link"
    /\ Revisions' = Revisions \cup
           {[keyId |-> req[p].keyId, revisionId |-> req[p].revisionId]}
    /\ IF KeyHasNoRevision(req[p])
       THEN /\ req' = [req EXCEPT ![p].pc = "cr_promote"]
            /\ UNCHANGED last
       ELSE /\ req' = [req EXCEPT ![p] = Idle]
            /\ last' = Sent("createRevision", 200)
    /\ UNCHANGED <<Key, Revision, Media>>
    /\ UNCHANGED <<taxonVars, characterVars, restVars>>

\* await revision.update({ status: 'ACCEPTED' })
createRevision_promote(p) ==
    /\ req[p].pc = "cr_promote"
    /\ Revision' = [Revision EXCEPT ![req[p].revisionId].status = "ACCEPTED"]
    /\ req' = [req EXCEPT ![p].pc = "cr_setkey"]
    /\ UNCHANGED <<Key, Revisions, Media, last>>
    /\ UNCHANGED <<taxonVars, characterVars, restVars>>

\* await key.update({ revisionId: revision.id })
createRevision_setKey(p) ==
    /\ req[p].pc = "cr_setkey"
    /\ Key' = [Key EXCEPT ![req[p].keyId].revisionId = req[p].revisionId]
    /\ req' = [req EXCEPT ![p] = Idle]
    /\ last' = Sent("createRevision", 200)
    /\ UNCHANGED <<Revision, Revisions, Media>>
    /\ UNCHANGED <<taxonVars, characterVars, restVars>>

\* --------------------------------- PUT /revisions/status/:revisionId
\* findRevisionForKey: const keyRevision = await Revisions.findOne(...);
\* no row: throw, and the handler answers 500
findRevisionForKey_join(p, r, k) ==
    /\ Free(p)
    /\ k \in DOMAIN Key
    /\ IF [keyId |-> k, revisionId |-> r] \in Revisions
       THEN /\ req' = [req EXCEPT ![p] = [Idle EXCEPT !.pc = "frk_rev",
                           !.keyId = k, !.revisionId = r]]
            /\ UNCHANGED last
       ELSE /\ req' = [req EXCEPT ![p] = Idle]
            /\ last' = Sent("updateStatus", 500)
    /\ UNCHANGED <<Key, Revision, Revisions, Media>>
    /\ UNCHANGED <<taxonVars, characterVars, restVars>>

\* findRevisionForKey: const revision = await Revision.findByPk(revisionId)
findRevisionForKey_rev(p) ==
    /\ req[p].pc = "frk_rev"
    /\ IF req[p].revisionId \in DOMAIN Revision
       THEN /\ req' = [req EXCEPT ![p].pc = "frk_key"]
            /\ UNCHANGED last
       ELSE /\ req' = [req EXCEPT ![p] = Idle]
            /\ last' = Sent("updateStatus", 500)
    /\ UNCHANGED <<Key, Revision, Revisions, Media>>
    /\ UNCHANGED <<taxonVars, characterVars, restVars>>

\* a status handler without its guard
NotCurrentRevision_Unguarded(keyRevisionId, revisionId) == TRUE

\* the handler's guard: key.revisionId !== req.params.revisionId
NotCurrentRevision(keyRevisionId, revisionId) == keyRevisionId # revisionId

\* findRevisionForKey: const key = await Key.findByPk(keyId); then the
\* handler's guard, which answers 409 for the key's current revision
findRevisionForKey_key(p) ==
    /\ req[p].pc = "frk_key"
    /\ IF NotCurrentRevision(Key[req[p].keyId].revisionId, req[p].revisionId)
       THEN /\ req' = [req EXCEPT ![p].pc = "st_update",
                           ![p].keyRevisionId = Key[req[p].keyId].revisionId]
            /\ UNCHANGED last
       ELSE /\ req' = [req EXCEPT ![p] = Idle]
            /\ last' = Sent("updateStatus", 409)
    /\ UNCHANGED <<Key, Revision, Revisions, Media>>
    /\ UNCHANGED <<taxonVars, characterVars, restVars>>

\* await Revision.update({ status: req.body.status }, { where: { id } })
updateStatus_write(p, s) ==
    /\ req[p].pc = "st_update"
    /\ Revision' = [Revision EXCEPT ![req[p].revisionId].status = s]
    /\ req' = [req EXCEPT ![p] = Idle]
    /\ last' = Sent("updateStatus", 200)
    /\ UNCHANGED <<Key, Revisions, Media>>
    /\ UNCHANGED <<taxonVars, characterVars, restVars>>

\* ------------------------------------ PUT /keys/:keyId (handleUpdateKey)
\* const keys = await Key.findAll(...): the key exists, the promises start
putKey_findAll(p, k) ==
    /\ Free(p)
    /\ k \in DOMAIN Key
    /\ req' = [req EXCEPT ![p] = [Idle EXCEPT !.pc = "uk_rev", !.keyId = k]]
    /\ UNCHANGED <<Key, Revision, Revisions, Media, last>>
    /\ UNCHANGED <<taxonVars, characterVars, restVars>>

\* handleUpdateKey's test of the revision it looked up by body.revisionId
MayRepoint(r, k) == Revision[r].status = "ACCEPTED"

\* const revision = await Revision.findByPk(body.revisionId);
\* if (revision.status === 'ACCEPTED') ... else throw (null: TypeError)
handleUpdateKey_findRev(p, r) ==
    /\ req[p].pc = "uk_rev"
    /\ IF r \in DOMAIN Revision /\ MayRepoint(r, req[p].keyId)
       THEN /\ req' = [req EXCEPT ![p].pc = "uk_update", ![p].revisionId = r]
            /\ UNCHANGED last
       ELSE /\ req' = [req EXCEPT ![p] = Idle]
            /\ last' = Sent("updateKey", 500)
    /\ UNCHANGED <<Key, Revision, Revisions, Media>>
    /\ UNCHANGED <<taxonVars, characterVars, restVars>>

\* await Key.update({ ..., revisionId: body.revisionId }, { where: { id: keyId } })
handleUpdateKey_update(p) ==
    /\ req[p].pc = "uk_update"
    /\ Key' = [Key EXCEPT ![req[p].keyId].revisionId = req[p].revisionId]
    /\ req' = [req EXCEPT ![p] = Idle]
    /\ last' = Sent("updateKey", 200)
    /\ UNCHANGED <<Revision, Revisions, Media>>
    /\ UNCHANGED <<taxonVars, characterVars, restVars>>

\* ------------------- POST /media/taxon|character (addMediaToRevision)
\* createMediaForEntity: const media = await createMedia(...), a new row
createMedia(p, r, k) ==
    /\ Free(p)
    /\ k \in DOMAIN Key
    /\ Media < MaxMedia
    /\ Media' = Media + 1
    /\ req' = [req EXCEPT ![p] = [Idle EXCEPT !.pc = "am_rev", !.keyId = k,
                   !.revisionId = r, !.mediaId = Media + 1]]
    /\ UNCHANGED <<Key, Revision, Revisions, last>>
    /\ UNCHANGED <<taxonVars, characterVars, restVars>>

\* const revision = await Revision.findByPk(revisionId)
addMediaToRevision_findRev(p) ==
    /\ req[p].pc = "am_rev"
    /\ req' = [req EXCEPT ![p].pc = "am_join", ![p].mediaElements =
                 IF req[p].revisionId \in DOMAIN Revision
                 THEN Revision[req[p].revisionId].mediaElements ELSE <<>>]
    /\ UNCHANGED <<Key, Revision, Revisions, Media, last>>
    /\ UNCHANGED <<taxonVars, characterVars, restVars>>

\* const keyRevision = await Revisions.findOne({ where: { keyId, revisionId } });
\* if (keyRevision) { addToRevisionMedia(...) ... } else throw new Error()
addMediaToRevision_findJoin(p) ==
    /\ req[p].pc = "am_join"
    /\ IF [keyId |-> req[p].keyId, revisionId |-> req[p].revisionId] \in Revisions
       THEN /\ req' = [req EXCEPT ![p].pc = "am_update", ![p].mediaElements =
                           Append(req[p].mediaElements, req[p].mediaId)]
            /\ UNCHANGED last
       ELSE /\ req' = [req EXCEPT ![p] = Idle]
            /\ last' = Sent("addMedia", 500)
    /\ UNCHANGED <<Key, Revision, Revisions, Media>>
    /\ UNCHANGED <<taxonVars, characterVars, restVars>>

\* await Revision.update({ content, media: revisionMedia }, { where: { id } })
addMediaToRevision_update(p) ==
    /\ req[p].pc = "am_update"
    /\ Revision' = [Revision EXCEPT
           ![req[p].revisionId].mediaElements = req[p].mediaElements]
    /\ req' = [req EXCEPT ![p] = Idle]
    /\ last' = Sent("addMedia", 200)
    /\ UNCHANGED <<Key, Revisions, Media>>
    /\ UNCHANGED <<taxonVars, characterVars, restVars>>

\* ------------- POST /taxa, PUT /taxa/:taxonId, PUT /characters/:characterId
\* The edit handlers share one skeleton: findRevisionForKey(body.revisionId,
\* body.keyId), a change of the content object in memory, then createRevision
\* with that content, the base revision's media and the key object that
\* findRevisionForKey returned. baseId is the revision the request names.
\* findRevisionForKey: const keyRevision = await Revisions.findOne(...)
edit_join(p, r, k) ==
    /\ Free(p)
    /\ k \in DOMAIN Key
    /\ IF [keyId |-> k, revisionId |-> r] \in Revisions
       THEN /\ req' = [req EXCEPT ![p] = [Idle EXCEPT !.pc = "ed_rev",
                           !.keyId = k, !.baseId = r]]
            /\ UNCHANGED last
       ELSE /\ req' = [req EXCEPT ![p] = Idle]
            /\ last' = Sent("edit", 500)
    /\ UNCHANGED <<Key, Revision, Revisions, Media>>
    /\ UNCHANGED <<taxonVars, characterVars, restVars>>

\* findRevisionForKey: const revision = await Revision.findByPk(revisionId)
edit_rev(p) ==
    /\ req[p].pc = "ed_rev"
    /\ IF req[p].baseId \in DOMAIN Revision
       THEN /\ req' = [req EXCEPT ![p].pc = "ed_key", ![p].mediaElements =
                           Revision[req[p].baseId].mediaElements]
            /\ UNCHANGED last
       ELSE /\ req' = [req EXCEPT ![p] = Idle]
            /\ last' = Sent("edit", 500)
    /\ UNCHANGED <<Key, Revision, Revisions, Media>>
    /\ UNCHANGED <<taxonVars, characterVars, restVars>>

\* findRevisionForKey: const key = await Key.findByPk(keyId); then the handler
\* changes revision.content in memory and either answers 409 or 404 (valid is
\* FALSE: a name conflict, an unknown entity) or calls createRevision(key, ...)
edit_key(p, valid) ==
    /\ req[p].pc = "ed_key"
    /\ IF valid
       THEN /\ req' = [req EXCEPT ![p].pc = "cr_create",
                           ![p].keyRevisionId = Key[req[p].keyId].revisionId]
            /\ UNCHANGED last
       ELSE /\ req' = [req EXCEPT ![p] = Idle]
            /\ last' = Sent("edit", 409)
    /\ UNCHANGED <<Key, Revision, Revisions, Media>>
    /\ UNCHANGED <<taxonVars, characterVars, restVars>>

\* ===================================================== taxon tree (content.taxa)
\* A taxon of content.taxa is a record [id, scientificName, parentId, children].
\* ids are the decimal strings of Taxon row ids, written as the integers.
\* parentId 0 stands for a taxon object without a parentId property.  children
\* is the list of child taxa; an absent list and an empty one are both <<>>:
\* every reader below treats them alike (an absent list is skipped, an empty
\* one is searched and nothing is found).
MaxTaxa == 4

TaxonIds == 1..MaxTaxa

\* a taxon that is pushed while it is still in place is in the tree twice: the
\* requests considered are those whose tree has at most MaxNodes taxon objects
MaxNodes == 4

\* request values of scientificName: two spellings of one name, three more names
Names == {"a", "A", "b", "c", "d"}

\* String.prototype.toUpperCase on the names above
toUpperCase(n) ==
    CASE n \in {"a", "A"} -> "A"
      [] n = "b" -> "B"
      [] n = "c" -> "C"
      [] n = "d" -> "D"
      [] n = "e" -> "E"

NewTaxon(id, name) ==
    [id |-> id, scientificName |-> name, parentId |-> 0, children |-> <<>>]

\* ---- positions: a path <<i, j, ..>> is element i of the list, its child j, ..
RECURSIVE NodeAt(_, _)
NodeAt(arr, path) ==
    IF Len(path) = 1 THEN arr[path[1]]
    ELSE NodeAt(arr[path[1]].children, Tail(path))

RECURSIVE UpdateAt(_, _, _)
UpdateAt(arr, path, node) ==
    [arr EXCEPT ![path[1]] =
        IF Len(path) = 1 THEN node
        ELSE [arr[path[1]] EXCEPT
                 !.children = UpdateAt(arr[path[1]].children, Tail(path), node)]]

\* the number of taxon objects of a tree
RECURSIVE Size(_)
Size(arr) ==
    IF Len(arr) = 0 THEN 0
    ELSE 1 + Size(arr[1].children) + Size(Tail(arr))

IsPrefix(a, b) == Len(a) <= Len(b) /\ SubSeq(b, 1, Len(a)) = a

\* ---- findTaxonById: forEach keeps the LAST match; the children of a matching
\* element are not searched; the recursive call does not pass `include`.
\* The result is the path of the taxon found, <<>> for undefined.
RECURSIVE findTaxonByIdFrom(_, _, _, _)
findTaxonByIdFrom(arr, id, i, taxon) ==
    IF i > Len(arr) THEN taxon
    ELSE LET element == arr[i]
             tmp == IF element.id = id THEN <<>>
                    ELSE findTaxonByIdFrom(element.children, id, 1, <<>>)
         IN findTaxonByIdFrom(arr, id, i + 1,
                IF element.id = id THEN <<i>>
                ELSE IF tmp # <<>> THEN <<i>> \o tmp
                ELSE taxon)

findTaxonById(arr, id) == findTaxonByIdFrom(arr, id, 1, <<>>)

\* the parentId the include flag writes: the id of the element of the list the
\* call was made on (the outermost call: the top-level ancestor) under which
\* the taxon was found
IncludedParentId(element) == element.id

\* the tree after findTaxonById(arr, id, true): under every top-level element
\* that holds a match, the match returned from below carries a parentId
RECURSIVE findTaxonByIdIncludeFrom(_, _, _)
findTaxonByIdIncludeFrom(arr, id, i) ==
    IF i > Len(arr) THEN <<>>
    ELSE LET element == arr[i]
             tmp == IF element.id = id THEN <<>>
                    ELSE findTaxonByIdFrom(element.children, id, 1, <<>>)
             seen == IF tmp = <<>> THEN element
                     ELSE [element EXCEPT !.children =
                              UpdateAt(element.children, tmp,
                                  [NodeAt(element.children, tmp) EXCEPT
                                      !.parentId = IncludedParentId(element)])]
         IN <<seen>> \o findTaxonByIdIncludeFrom(arr, id, i + 1)

findTaxonByIdInclude(arr, id) == findTaxonByIdIncludeFrom(arr, id, 1)

\* ---- findTaxonByName: same walk, names compared in upper case; ignoreId is
\* looked at once, after the walk of the outermost list.  The result is the id
\* of the taxon found, 0 for undefined.
RECURSIVE findTaxonByNameFrom(_, _, _, _)
findTaxonByNameFrom(arr, name, i, taxon) ==
    IF i > Len(arr) THEN taxon
    ELSE LET element == arr[i]
             same == toUpperCase(element.scientificName) = toUpperCase(name)
             tmp == IF same THEN 0
                    ELSE findTaxonByNameFrom(element.children, name, 1, 0)
         IN findTaxonByNameFrom(arr, name, i + 1,
                IF same THEN element.id
                ELSE IF tmp # 0 THEN tmp
                ELSE taxon)

findTaxonByName(arr, name, ignoreId) ==
    LET taxon == findTaxonByNameFrom(arr, name, 1, 0)
    IN IF ignoreId # 0 /\ taxon # 0 /\ taxon = ignoreId THEN 0 ELSE taxon

\* ---- Array.prototype.findIndex / splice(index, 1)
\* findIndex: the first index whose element has the id, 0 standing for -1
findIndex(list, id) ==
    IF \E i \in 1..Len(list) : list[i].id = id
    THEN CHOOSE i \in 1..Len(list) :
            list[i].id = id /\ \A j \in 1..(i - 1) : list[j].id # id
    ELSE 0

\* the index splice(index, 1) removes: index -1 counts from the end, so the
\* last element goes; nothing goes from an empty list (0)
SplicedIndex(list, index) ==
    IF Len(list) = 0 THEN 0
    ELSE IF index = 0 THEN Len(list)
    ELSE index

RemoveIndex(list, k) ==
    IF k = 0 THEN list
    ELSE SubSeq(list, 1, k - 1) \o SubSeq(list, k + 1, Len(list))

\* ---- the taxon object a handler holds (tmpTaxon) is a reference into the
\* tree.  A handler's working content is [taxa, at, circular, typeError]:
\* `at` is the set of positions at which that one object now sits (none once
\* it is cut out, two once it is pushed while still in place), `circular`
\* says that the object was pushed into its own subtree, `typeError` that a
\* property of undefined was read.
Content(arr, at, circular, typeError) ==
    [taxa |-> arr, at |-> at, circular |-> circular, typeError |-> typeError]

\* where the object at `path` sits after element k of the children of `ppath`
\* (of the top-level list for ppath = <<>>) is removed
PathAfterRemove(path, ppath, k) ==
    IF k = 0 \/ ~IsPrefix(ppath, path) \/ Len(path) = Len(ppath) THEN {path}
    ELSE LET c == path[Len(ppath) + 1]
         IN IF c = k THEN {}
            ELSE IF c > k THEN {[path EXCEPT ![Len(ppath) + 1] = c - 1]}
            ELSE {path}

\* addToParent(taxa, taxon, parentId): push the taxon on the children of the
\* parent findTaxonById returns; nothing happens when there is no such parent.
\* `at` are the positions the pushed object already has in taxa.
addToParent(arr, taxon, at, parentId) ==
    LET ppath == findTaxonById(arr, parentId)
    IN IF ppath = <<>> THEN Content(arr, at, FALSE, FALSE)
       ELSE IF \E h \in at : IsPrefix(h, ppath)
            THEN Content(arr, at, TRUE, FALSE)
       ELSE LET parent == NodeAt(arr, ppath)
            IN Content(
                UpdateAt(arr, ppath,
                    [parent EXCEPT !.children = Append(parent.children, taxon)]),
                at \cup {ppath \o <<Len(parent.children) + 1>>},
                FALSE, FALSE)

\* updateParentTaxon(tmpTaxon, parentId, taxa, taxonId), tmpTaxon at `path`
updateParentTaxon(arr, path, parentId, taxonId) ==
    LET tmpTaxon == NodeAt(arr, path)
    IN IF tmpTaxon.parentId # 0
       THEN LET ppath == findTaxonById(arr, tmpTaxon.parentId)
            IN IF ppath = <<>> THEN Content(arr, {path}, FALSE, TRUE)
               ELSE LET parentTaxon == NodeAt(arr, ppath)
                        k == SplicedIndex(parentTaxon.children,
                                 findIndex(parentTaxon.children, taxonId))
                        cut == UpdateAt(arr, ppath,
                                   [parentTaxon EXCEPT !.children =
                                       RemoveIndex(parentTaxon.children, k)])
                        at == PathAfterRemove(path, ppath, k)
                    IN IF parentId = 0
                       THEN Content(Append(cut, tmpTaxon),
                                at \cup {<<Len(cut) + 1>>}, FALSE, FALSE)
                       ELSE addToParent(cut, tmpTaxon, at, parentId)
       ELSE IF parentId # 0
       THEN LET k == SplicedIndex(arr, findIndex(arr, taxonId))
                cut == RemoveIndex(arr, k)
                at == PathAfterRemove(path, <<>>, k)
            IN addToParent(cut, tmpTaxon, at, parentId)
       ELSE Content(arr, {path}, FALSE, FALSE)

\* delete tmpTaxon.parentId: the object loses the property wherever it sits
RECURSIVE DeleteParentId(_, _)
DeleteParentId(arr, at) ==
    IF at = {} THEN arr
    ELSE LET h == CHOOSE x \in at : TRUE
         IN DeleteParentId(
                UpdateAt(arr, h, [NodeAt(arr, h) EXCEPT !.parentId = 0]),
                at \ {h})

\* modifyTaxonNames, the scientificName part: valid or not
modifyTaxonNames(arr, taxonId, name) == findTaxonByName(arr, name, taxonId) = 0

\* ---- PUT /taxa/:taxonId: the working content when the handler reaches
\* `if (valid)`.  reparent: the body carries parentId.
UpdatedContent(arr, taxonId, name, reparent, parentId) ==
    LET path == findTaxonById(arr, taxonId)
        found == findTaxonByIdInclude(arr, taxonId)
        valid == modifyTaxonNames(found, taxonId, name)
        named == IF valid
                 THEN UpdateAt(found, path,
                          [NodeAt(found, path) EXCEPT !.scientificName = name])
                 ELSE found
        moved == IF reparent THEN updateParentTaxon(named, path, parentId, taxonId)
                 ELSE Content(named, {path}, FALSE, FALSE)
    IN [moved EXCEPT !.taxa = DeleteParentId(moved.taxa, moved.at)]

\* content.statements.filter((element) => element.taxonId !== tmpTaxon.id)
RECURSIVE FilterTaxonStatements(_, _)
FilterTaxonStatements(arr, id) ==
    IF Len(arr) = 0 THEN <<>>
    ELSE (IF Head(arr).taxonId # id THEN <<Head(arr)>> ELSE <<>>)
         \o FilterTaxonStatements(Tail(arr), id)

\* req.body.parentId !== tmpTaxon.parentId: the body holds a JSON number, or
\* with asString its decimal string; tmpTaxon.parentId is undefined (0) or the
\* string findTaxonById wrote, so only a string can be equal to it
ParentIdDiffers(parentId, asString, tmpParentId) ==
    ~(asString /\ tmpParentId # 0 /\ parentId = tmpParentId)

\* the content.statements the handler hands to createRevision
UpdatedStatements(arr, taxonId, reparent, parentId, asString, list) ==
    LET tmpTaxon == NodeAt(findTaxonByIdInclude(arr, taxonId),
                           findTaxonById(arr, taxonId))
    IN IF reparent /\ ParentIdDiffers(parentId, asString, tmpTaxon.parentId)
       THEN FilterTaxonStatements(list, tmpTaxon.id)
       ELSE list

\* the response and the content of the new revision, if there is one: 404
\* without the row or without the taxon in the tree, 500 when the handler
\* throws (createRevision cannot serialise a circular content), 409 on a name
\* conflict, else 200 and a revision with the taxa and the statements
putTaxon_body(taxonId, name, reparent, parentId, asString) ==
    /\ IF taxonId > Taxon \/ findTaxonById(taxa, taxonId) = <<>>
       THEN taxonRes' = 404 /\ taxa' = taxa /\ statements' = statements
       ELSE LET valid == modifyTaxonNames(taxa, taxonId, name)
                content == UpdatedContent(taxa, taxonId, name, reparent, parentId)
            IN IF content.typeError \/ (valid /\ content.circular)
               THEN taxonRes' = 500 /\ taxa' = taxa /\ statements' = statements
               ELSE IF valid
               THEN /\ taxonRes' = 200
                    /\ taxa' = content.taxa
                    /\ statements' = UpdatedStatements(taxa, taxonId, reparent,
                                         parentId, asString, statements)
               ELSE taxonRes' = 409 /\ taxa' = taxa /\ statements' = statements
    /\ Size(taxa') <= MaxNodes
    /\ UNCHANGED <<Taxon, storeVars, characterVars, mediaDocVars, deletionVars,
                   Character, CharacterState, charReq, namesCall, permissionVars>>

\* the request with parentId, if any, as a JSON number
putTaxon(taxonId, name, reparent, parentId) ==
    putTaxon_body(taxonId, name, reparent, parentId, FALSE)

putTaxon_names(taxonId, name) == putTaxon(taxonId, name, FALSE, 0)

putTaxon_parent(taxonId, name, parentId) == putTaxon(taxonId, name, TRUE, parentId)

\* ---- POST /taxa
postTaxon(name, parentId) ==
    IF findTaxonByName(taxa, name, 0) = 0
    THEN /\ Taxon < MaxTaxa
         /\ Taxon' = Taxon + 1
         /\ taxa' = IF parentId # 0
                    THEN addToParent(taxa, NewTaxon(Taxon + 1, name), {}, parentId).taxa
                    ELSE Append(taxa, NewTaxon(Taxon + 1, name))
         /\ taxonRes' = 200
         /\ UNCHANGED <<storeVars, characterVars, restVars>>
    ELSE /\ taxonRes' = 409
         /\ UNCHANGED <<taxa, Taxon, storeVars, characterVars, restVars>>

\* ======================================= character premises (content.characters)
\* A character of content.characters is [id, logicalPremise].  logicalPremise
\* is Undefined or Defined(p), p the array of disjunctions; a disjunction is
\* an array of clauses [characterId, stateId].
MaxDisjunctions == 2

\* the characters of the key and their states (CharacterState rows): states 1
\* and 2 belong to character 1, state 3 to character 2
CharacterIds == {1, 2}

StateIds == {1, 2, 3}

CharacterOf(s) == IF s = 3 THEN 2 ELSE 1

Clause(s) == [characterId |-> CharacterOf(s), stateId |-> s]

Undefined == <<>>

Defined(p) == <<p>>

\* the disjunctions a premise editor writes: one or more clauses of
\* different states, in the order of their ids
RECURSIVE ClausesOf(_)
ClausesOf(S) ==
    IF S = {} THEN <<>>
    ELSE LET s == CHOOSE x \in S : \A y \in S : x <= y
         IN <<Clause(s)>> \o ClausesOf(S \ {s})

Disjunctions == {ClausesOf(S) : S \in (SUBSET StateIds) \ {{}}}

RECURSIVE SeqsUpTo(_, _)
SeqsUpTo(S, n) ==
    IF n = 0 THEN {<<>>}
    ELSE SeqsUpTo(S, n - 1)
             \cup {Append(q, x) : q \in {r \in SeqsUpTo(S, n - 1) : Len(r) = n - 1},
                                  x \in S}

\* PUT /characters/premise/:characterId stores any array it is given
Premises ==
    {Undefined} \cup {Defined(p) : p \in SeqsUpTo(Disjunctions, MaxDisjunctions)}

\* the state lists of the requests: one id, or two different ones
StateLists ==
    {<<s>> : s \in StateIds}
        \cup {q \in {<<s, t>> : s, t \in StateIds} : q[1] # q[2]}

\* ---- removeStatePremises(id, chars)
\* subElement.filter((el) => el.stateId !== id)
RECURSIVE FilterState(_, _)
FilterState(subElement, id) ==
    IF Len(subElement) = 0 THEN <<>>
    ELSE (IF Head(subElement).stateId # id THEN <<Head(subElement)>> ELSE <<>>)
             \o FilterState(Tail(subElement), id)

\* logicalPremise.map(...)
RECURSIVE MapFilterState(_, _)
MapFilterState(premise, id) ==
    IF Len(premise) = 0 THEN <<>>
    ELSE <<FilterState(Head(premise), id)>> \o MapFilterState(Tail(premise), id)

KeepsDisjunction_NonEmpty(subElement) == Len(subElement) > 0

\* (subElement) => subElement.length > 1
KeepsDisjunction(subElement) == Len(subElement) > 1

\* logicalPremise.filter(...)
RECURSIVE FilterDisjunctions(_)
FilterDisjunctions(premise) ==
    IF Len(premise) = 0 THEN <<>>
    ELSE (IF KeepsDisjunction(Head(premise)) THEN <<Head(premise)>> ELSE <<>>)
             \o FilterDisjunctions(Tail(premise))

\* the body of arr.forEach for one character
removeStatePremisesOf(id, element) ==
    IF element.logicalPremise = Undefined THEN element
    ELSE LET kept == FilterDisjunctions(
                         MapFilterState(element.logicalPremise[1], id))
         IN [element EXCEPT !.logicalPremise =
                IF Len(kept) = 1 THEN Undefined ELSE Defined(kept)]

RECURSIVE removeStatePremises(_, _)
removeStatePremises(id, chars) ==
    IF Len(chars) = 0 THEN <<>>
    ELSE <<removeStatePremisesOf(id, Head(chars))>>
             \o removeStatePremises(id, Tail(chars))

\* req.body.states.forEach((state) => { content.characters = ... })
RECURSIVE forEachState(_, _)
forEachState(states, chars) ==
    IF Len(states) = 0 THEN chars
    ELSE forEachState(Tail(states), removeStatePremises(Head(states), chars))

\* ---- PUT /characters/states/revision/:revisionId: the revision is updated in
\* place with the cleaned characters
putStates(states) ==
    /\ characters' = forEachState(states, characters)
    /\ statesReq' =
           [states |-> states, res |-> 200,
            cleared |-> {c \in DOMAIN characters :
                            /\ characters[c].logicalPremise # Undefined
                            /\ characters'[c].logicalPremise = Undefined},
            pruned |-> {c \in DOMAIN characters :
                            /\ characters'[c].logicalPremise # Undefined
                            /\ characters'[c] # characters[c]}]
    /\ UNCHANGED <<storeVars, taxonVars, restVars>>

\* ================================================ revision media (media column)
\* A media id is a JSON value: the number n of a Media row id or its decimal
\* string.  The entity media lists and request bodies hold either; a template
\* literal `${v}` turns both into the string.
MaxElements == 2

ElementIds == 1..MaxElements

Num(n) == [type |-> "number", n |-> n]

Str(n) == [type |-> "string", n |-> n]

\* `${v}`
String(v) == Str(v.n)

\* Array.prototype.includes: strict equality, a number never equals a string
Includes(list, v) == \E i \in DOMAIN list : list[i] = v

\* the names a client gives as creators, and name.replace(/\s+/g, '').toLowerCase()
PersonNames == {"Ann B", "annb", "Cy"}

personId(name) ==
    CASE name = "Ann B" -> "annb"
      [] name = "annb" -> "annb"
      [] name = "Cy" -> "cy"

MaxCreators == 1

CreatorLists == SeqsUpTo(PersonNames, MaxCreators)

\* body.media of a detach request: body('media').isArray(), any JSON values
MaxDetached == 2

MediaLists == SeqsUpTo({Num(n) : n \in ElementIds} \cup {Str(n) : n \in ElementIds},
                       MaxDetached)

\* fileInfo.creators.forEach((name) => { persons.push({ id, name }); creators.push(id) })
RECURSIVE PushCreators(_, _)
PushCreators(persons, creators) ==
    IF Len(creators) = 0 THEN persons
    ELSE PushCreators(Append(persons, [id |-> personId(Head(creators)),
                                       name |-> Head(creators)]),
                      Tail(creators))

RECURSIVE MapPersonId(_)
MapPersonId(creators) ==
    IF Len(creators) = 0 THEN <<>>
    ELSE <<personId(Head(creators))>> \o MapPersonId(Tail(creators))

\* addToRevisionMedia(revision, media, fileInfo): the element of the new file is
\* pushed onto mediaElements and every creator of fileInfo onto persons
addToRevisionMedia(media, id, creators) ==
    [mediaElements |-> Append(media.mediaElements,
         [id |-> Str(id),
          creators |-> IF Len(creators) > 0 THEN Defined(MapPersonId(creators))
                       ELSE Undefined]),
     persons |-> PushCreators(media.persons, creators)]

\* the id pushed onto the entity's media list: arr.push(media.id) for a taxon
\* and a character, arr.push(`${media.id}`) for a state
PushedId(kind, id) == IF kind = "state" THEN Str(id) ELSE Num(id)

\* let arr = []; if (entity.media) arr = entity.media; arr.push(...)
PushMedia(entityMedia, v) ==
    Defined(Append(IF entityMedia = Undefined THEN <<>> ELSE entityMedia[1], v))

\* ---- POST /media/taxa, /media/characters, /media/state: createMedia and
\* addMediaToRevision, for an entity that is in the revision's content
addMediaToRevision(kind, creators) ==
    /\ Media < MaxElements
    /\ Media' = Media + 1
    /\ revisionMedia' = addToRevisionMedia(revisionMedia, Media + 1, creators)
    /\ entities' = [entities EXCEPT ![kind] = PushMedia(@, PushedId(kind, Media + 1))]
    /\ mediaReq' = [op |-> "attach", res |-> 200]
    /\ UNCHANGED <<Key, Revision, Revisions, req, last>>
    /\ UNCHANGED exceptMediaDoc

\* entity.media.forEach((element) => {
\*     if (!body.media.includes(`${element}`)) arr.push(`${element}`); })
RECURSIVE KeptIds(_, _)
KeptIds(entityMedia, bodyMedia) ==
    IF Len(entityMedia) = 0 THEN <<>>
    ELSE (IF ~Includes(bodyMedia, String(Head(entityMedia)))
          THEN <<String(Head(entityMedia))>> ELSE <<>>)
         \o KeptIds(Tail(entityMedia), bodyMedia)

\* media.mediaElements.forEach((element) => {
\*     if (!body.media.includes(`${element.id}`)) elements.push(element); })
RECURSIVE KeptElements(_, _)
KeptElements(mediaElements, bodyMedia) ==
    IF Len(mediaElements) = 0 THEN <<>>
    ELSE (IF ~Includes(bodyMedia, String(Head(mediaElements).id))
          THEN <<Head(mediaElements)>> ELSE <<>>)
         \o KeptElements(Tail(mediaElements), bodyMedia)

\* removeEntityMedia(entity, media, body): [entity.media, media] afterwards
removeEntityMedia(entityMedia, media, bodyMedia) ==
    [entity |-> Defined(KeptIds(entityMedia[1], bodyMedia)),
     media |-> [media EXCEPT !.mediaElements = KeptElements(@, bodyMedia)]]

\* removeFromRevision(url, body, taxa, characters, media), for an entity that
\* is in the revision's content: nothing is done when it has no media property
removeFromRevision(url, bodyMedia, entityMedia, media) ==
    IF entityMedia # Undefined
    THEN removeEntityMedia(entityMedia, media, bodyMedia)
    ELSE [entity |-> entityMedia, media |-> media]

\* ---- DELETE /media/taxon, /media/character, /media/state
deleteEntityMedia(url, bodyMedia) ==
    /\ LET removed == removeFromRevision(url, bodyMedia, entities[url], revisionMedia)
       IN /\ entities' = [entities EXCEPT ![url] = removed.entity]
          /\ revisionMedia' = removed.media
    /\ mediaReq' = [op |-> "detach", res |-> 200]
    /\ UNCHANGED storeVars
    /\ UNCHANGED exceptMediaDoc

\* media.mediaElements.find((element) => `${element.id}` === `${req.body.mediaId}`):
\* the index of the element, 0 when there is none
FindElement(mediaElements, mediaId) ==
    IF \E i \in DOMAIN mediaElements : mediaElements[i].id = Str(mediaId)
    THEN CHOOSE i \in DOMAIN mediaElements :
             /\ mediaElements[i].id = Str(mediaId)
             /\ \A j \in 1..(i - 1) : mediaElements[j].id # Str(mediaId)
    ELSE 0

\* body.creators.forEach: a creator is pushed onto persons unless a person of
\* its id is there already
RECURSIVE PushNewCreators(_, _)
PushNewCreators(persons, creators) ==
    IF Len(creators) = 0 THEN persons
    ELSE PushNewCreators(
             IF \E i \in DOMAIN persons : persons[i].id = personId(Head(creators))
             THEN persons
             ELSE Append(persons, [id |-> personId(Head(creators)),
                                   name |-> Head(creators)]),
             Tail(creators))

\* updateMediaElement(body, mediaElement, media), as far as creators and persons
\* go (title and license are not modelled); body.creators is Undefined or
\* Defined(list)
updateMediaElement(creators, i, media) ==
    IF creators = Undefined THEN media
    ELSE [mediaElements |-> [media.mediaElements EXCEPT
                                ![i].creators = Defined(MapPersonId(creators[1]))],
          persons |-> PushNewCreators(media.persons, creators[1])]

\* ---- PUT /media/revision/:revisionId
putRevisionMedia(mediaId, creators) ==
    /\ LET i == FindElement(revisionMedia.mediaElements, mediaId)
       IN IF i # 0
          THEN /\ revisionMedia' = updateMediaElement(creators, i, revisionMedia)
               /\ mediaReq' = [op |-> "update", res |-> 200]
          ELSE /\ revisionMedia' = revisionMedia
               /\ mediaReq' = [op |-> "update", res |-> 404]
    /\ UNCHANGED entities
    /\ UNCHANGED storeVars
    /\ UNCHANGED exceptMediaDoc

\* ======================================================= media file deletion
\* The Media rows of a key's own files, their MediaInfo rows, the KeyMedia join
\* rows and the files on disk.  A Media row is the set of its path columns that
\* are set; a file on disk is <<media id, path column>>.
NumDeletable == 2

DeletableIds == 1..NumDeletable

Paths == {"filePath", "thumbnailPath"}

Languages == {"no", "en"}

\* err.code of a failed fs.unlink: the file does not exist, or any other error
ErrorCodes == {"ENOENT", "EACCES"}

NoDeletion == [pc |-> "idle", pending |-> {}, errors |-> {}]

\* the rows createMedia and resizeImages leave for the files of the key: every
\* file has a Norwegian title, file 1 an English one as well, any of them has a
\* thumbnail, and any of the files may be gone from the disk since
InitDeletion ==
    /\ \E thumbs \in SUBSET DeletableIds :
         \E disk \in SUBSET ((DeletableIds \X {"filePath"}) \cup (thumbs \X {"thumbnailPath"})) :
           mediaStore = [rows |-> [m \in DeletableIds |->
                                     IF m \in thumbs THEN Paths ELSE {"filePath"}],
                         info |-> (DeletableIds \X {"no"}) \cup {<<1, "en">>},
                         keyMedia |-> DeletableIds,
                         disk |-> disk]
    /\ del = [m \in DeletableIds |-> NoDeletion]
    /\ delReq = [pc |-> "idle", media |-> {}, res |-> 0]

\* ---- DELETE /media/key/:keyId: KeyMedia.destroy of the rows the body names;
\* when every element of the body matched a row, deleteMedia is started for
\* each of them, else 500.  body is the set of ids of req.body.media.
deleteKeyMedia(body) ==
    /\ delReq.pc = "idle"
    /\ mediaStore' = [mediaStore EXCEPT !.keyMedia = @ \ body]
    /\ IF Cardinality(mediaStore.keyMedia \cap body) = Cardinality(body)
       THEN /\ del' = [m \in DOMAIN del |->
                          IF m \in body THEN [NoDeletion EXCEPT !.pc = "find"]
                          ELSE del[m]]
            /\ delReq' = [pc |-> "await", media |-> body, res |-> 0]
       ELSE /\ del' = del
            /\ delReq' = [pc |-> "sent", media |-> body, res |-> 500]
    /\ UNCHANGED storeVars
    /\ UNCHANGED exceptDeletion

\* deleteMedia: const media = await Media.findByPk(id); deleteMediaFile starts
\* an unlink for every path column that is set (without a row, reading
\* media.filePath throws and the promise rejects)
deleteMedia_find(m) ==
    /\ del[m].pc = "find"
    /\ del' = [del EXCEPT ![m] =
                  IF m \notin DOMAIN mediaStore.rows THEN [@ EXCEPT !.pc = "failed"]
                  ELSE IF mediaStore.rows[m] = {} THEN [@ EXCEPT !.pc = "info"]
                  ELSE [@ EXCEPT !.pc = "unlink", !.pending = mediaStore.rows[m]]]
    /\ UNCHANGED <<mediaStore, delReq>>
    /\ UNCHANGED storeVars
    /\ UNCHANGED exceptDeletion

\* the outcomes fs.unlink can report for a path: ENOENT when there is no such
\* file; success or another error when there is
UnlinkOutcomes(m, path) ==
    IF <<m, path>> \in mediaStore.disk THEN {"ok", "EACCES"} ELSE {"ENOENT"}

\* whether deleteMediaFile rejects on the error of an unlink:
\* if (err && err.code === 'ENOENT') reject(err); else if (err) reject(err)
Rejects(code) == code \in {"ENOENT", "EACCES"}

\* a deleteMediaFile that goes on to the rows whatever the unlinks reported
UnlinksResolved_Settled(d) == d.pending = {}

\* Promise.all(promises).then(...): the unlinks all resolved
UnlinksResolved(d) == d.pending = {} /\ d.errors = {}

\* the callback of one fs.unlink; the other unlink, when pending, still runs
\* after a rejection
unlink(m, path, outcome) ==
    /\ del[m].pc \in {"unlink", "failed"}
    /\ path \in del[m].pending
    /\ outcome \in UnlinkOutcomes(m, path)
    /\ mediaStore' = [mediaStore EXCEPT !.disk =
                         IF outcome = "ok" THEN @ \ {<<m, path>>} ELSE @]
    /\ LET d == [del[m] EXCEPT !.pending = @ \ {path},
                               !.errors = IF outcome # "ok" /\ Rejects(outcome)
                                          THEN @ \cup {outcome} ELSE @]
       IN del' = [del EXCEPT ![m] =
                     IF UnlinksResolved(d) THEN [d EXCEPT !.pc = "info"]
                     ELSE IF d.errors # {} THEN [d EXCEPT !.pc = "failed"]
                     ELSE d]
    /\ UNCHANGED delReq
    /\ UNCHANGED storeVars
    /\ UNCHANGED exceptDeletion

\* MediaInfo.destroy({ where: { mediaId: media.id } })
destroyMediaInfo(m) ==
    /\ del[m].pc = "info"
    /\ mediaStore' = [mediaStore EXCEPT !.info = {i \in @ : i[1] # m}]
    /\ del' = [del EXCEPT ![m].pc = "row"]
    /\ UNCHANGED delReq
    /\ UNCHANGED storeVars
    /\ UNCHANGED exceptDeletion

\* media.destroy().then(() => resolve())
destroyMedia(m) ==
    /\ del[m].pc = "row"
    /\ mediaStore' = [mediaStore EXCEPT !.rows =
                         [k \in DOMAIN @ \ {m} |-> @[k]]]
    /\ del' = [del EXCEPT ![m].pc = "done"]
    /\ UNCHANGED delReq
    /\ UNCHANGED storeVars
    /\ UNCHANGED exceptDeletion

\* await Promise.all(...); res.sendStatus(200), or the catch: 500 at the first
\* deleteMedia that rejects, while the others go on
deleteKeyMedia_send ==
    /\ delReq.pc = "await"
    /\ \/ /\ \E m \in delReq.media : del[m].pc = "failed"
          /\ delReq' = [delReq EXCEPT !.pc = "sent", !.res = 500]
       \/ /\ \A m \in delReq.media : del[m].pc = "done"
          /\ delReq' = [delReq EXCEPT !.pc = "sent", !.res = 200]
    /\ UNCHANGED <<mediaStore, del>>
    /\ UNCHANGED storeVars
    /\ UNCHANGED exceptDeletion

\* ===================================== characters (create and update requests)
\* Character is the number of rows of the Character table, CharacterState the
\* sequence of the state rows' characterId columns (0 is null), indexed by
\* state id.  A character of content.characters is [id, states, logicalPremise];
\* its states is an array, [array |-> TRUE, list |-> <<[id |-> s], ...>>], or
\* the object of a numerical character, [array |-> FALSE, id, min, max,
\* stepSize].  Titles, descriptions and units are left out: no test of the
\* handlers reads them, except for the unit of the request body.
MaxCharacterRows == 2

MaxStateRows == 3

MaxAlternatives == 2

\* a number the request left out
NoValue == -1

ListStates(list) == [array |-> TRUE, list |-> list]

NumericalStates(id, min, max, stepSize) ==
    [array |-> FALSE, id |-> id, min |-> min, max |-> max, stepSize |-> stepSize]

\* existingValues.min < newValues.min on numbers; false when one is undefined
Less(a, b) == a # NoValue /\ b # NoValue /\ a < b

\* the input check of both handlers:
\* (type === 'NUMERICAL' && (unitNo || unitEn)) || (alternatives && alternatives.length > 1)
InputPasses(body) ==
    \/ body.type = "NUMERICAL" /\ body.unit
    \/ body.alternatives # Undefined /\ Len(body.alternatives[1]) > 1

\* CharacterState.update({ characterId }, { where: { id: alternative.id } }) for
\* every alternative: the rows afterwards
RECURSIVE UpdateRows(_, _, _)
UpdateRows(rows, characterId, alternatives) ==
    IF Len(alternatives) = 0 THEN rows
    ELSE UpdateRows(IF Head(alternatives) \in DOMAIN rows
                    THEN [rows EXCEPT ![Head(alternatives)] = characterId]
                    ELSE rows,
                    characterId, Tail(alternatives))

RECURSIVE StatesOf(_)
StatesOf(alternatives) ==
    IF Len(alternatives) = 0 THEN <<>>
    ELSE <<[id |-> Head(alternatives)]>> \o StatesOf(Tail(alternatives))

\* createMultiStates(character, alternatives): every update is issued; the
\* promise resolves with the states when each of them changed a row, and
\* rejects when one did not or when alternatives is not an array.  alternatives
\* is Undefined or Defined(list of state ids).
createMultiStates(rows, characterId, alternatives) ==
    IF alternatives = Undefined
    THEN [rows |-> rows, resolved |-> FALSE, states |-> ListStates(<<>>)]
    ELSE [rows |-> UpdateRows(rows, characterId, alternatives[1]),
          resolved |-> \A i \in DOMAIN alternatives[1] :
                           alternatives[1][i] \in DOMAIN rows,
          states |-> ListStates(StatesOf(alternatives[1]))]

\* createNumericalState(characterId, unit, min, max, stepSize, id):
\* CharacterState.findOrCreate({ where: { id: id || 0 }, defaults: { characterId } })
createNumericalState(rows, characterId, body, id) ==
    IF id \in DOMAIN rows
    THEN [rows |-> rows, resolved |-> TRUE,
          states |-> NumericalStates(id, body.min, body.max, body.stepSize)]
    ELSE [rows |-> Append(rows, characterId), resolved |-> TRUE,
          states |-> NumericalStates(Len(rows) + 1, body.min, body.max, body.stepSize)]

\* ---- POST /characters/state: CharacterState.create({ characterId })
postState(characterId) ==
    /\ Len(CharacterState) < MaxStateRows
    /\ CharacterState' = Append(CharacterState, characterId)
    /\ charReq' = CharRes("state", 0, 200)
    /\ UNCHANGED <<Character, characters, statements>>
    /\ UNCHANGED exceptCharacters

\* ---- POST /characters: the Character row is created first, then the state
\* rows are written; the character is pushed onto content.characters and the
\* revision created only when the states resolved
postCharacter(body) ==
    /\ Character < MaxCharacterRows
    /\ body.type = "NUMERICAL" => Len(CharacterState) < MaxStateRows
    /\ IF ~InputPasses(body)
       THEN /\ charReq' = CharRes("create", 0, 400)
            /\ UNCHANGED <<Character, CharacterState, characters>>
       ELSE LET id == Character + 1
                made == IF body.type = "NUMERICAL"
                        THEN createNumericalState(CharacterState, id, body, 0)
                        ELSE createMultiStates(CharacterState, id, body.alternatives)
            IN /\ Character' = id
               /\ CharacterState' = made.rows
               /\ IF made.resolved
                  THEN /\ characters' = Append(characters,
                              [id |-> id, states |-> made.states,
                               logicalPremise |-> Undefined])
                       /\ charReq' = CharRes("create", id, 200)
                  ELSE /\ characters' = characters
                       /\ charReq' = CharRes("create", id, 500)
    /\ UNCHANGED statements
    /\ UNCHANGED exceptCharacters

\* revision.content.characters.find((element) => element.id === characterId):
\* the index, 0 when there is none
FindCharacter(chars, characterId) ==
    IF \E i \in DOMAIN chars : chars[i].id = characterId
    THEN CHOOSE i \in DOMAIN chars :
             /\ chars[i].id = characterId
             /\ \A j \in 1..(i - 1) : chars[j].id # characterId
    ELSE 0

\* subElement.filter((el) => el.characterId !== id)
RECURSIVE FilterCharacter(_, _)
FilterCharacter(subElement, id) ==
    IF Len(subElement) = 0 THEN <<>>
    ELSE (IF Head(subElement).characterId # id THEN <<Head(subElement)>> ELSE <<>>)
         \o FilterCharacter(Tail(subElement), id)

RECURSIVE MapFilterCharacter(_, _)
MapFilterCharacter(premise, id) ==
    IF Len(premise) = 0 THEN <<>>
    ELSE <<FilterCharacter(Head(premise), id)>> \o MapFilterCharacter(Tail(premise), id)

\* a removeCharacterPremises that ends as removeStatePremises does:
\* if (element.logicalPremise.length === 1) element.logicalPremise = undefined
FilteredPremise_Collapsed(premise) ==
    IF Len(premise) = 1 THEN Undefined ELSE Defined(premise)

\* element.logicalPremise after the filter: the array, whatever its length
FilteredPremise(premise) == Defined(premise)

\* removeCharacterPremises(id, chars): as removeStatePremises, keyed by the
\* character id and without the collapse to undefined
RECURSIVE removeCharacterPremises(_, _)
removeCharacterPremises(id, chars) ==
    IF Len(chars) = 0 THEN <<>>
    ELSE <<IF Head(chars).logicalPremise # Undefined
           THEN [Head(chars) EXCEPT !.logicalPremise =
                    FilteredPremise(FilterDisjunctions(MapFilterCharacter(@[1], id)))]
           ELSE Head(chars)>>
         \o removeCharacterPremises(id, Tail(chars))

\* the test on min of a checkMinMaxValues that purges when the range grows
MinChanged_Below(newValues, existingValues) == Less(newValues.min, existingValues.min)

\* existingValues.min < newValues.min
MinChanged(newValues, existingValues) == Less(existingValues.min, newValues.min)

\* checkMinMaxValues(id, newValues, existingValues, characters)
checkMinMaxValues(id, newValues, existingValues, chars) ==
    IF \/ existingValues.stepSize # newValues.stepSize
       \/ MinChanged(newValues, existingValues)
       \/ Less(newValues.max, existingValues.max)
    THEN removeCharacterPremises(id, chars)
    ELSE chars

\* a filter of removed states that takes every previous state for removed
IsRemoved_Always(state, states) == TRUE

\* char.states.filter: the state is not among the new states
IsRemoved(state, states) == ~ \E i \in DOMAIN states : states[i].id = state.id

\* the statements left once those of the removed states are filtered out:
\* removedStates.forEach((state) => { arr = arr.filter(
\*     (statement) => statement.state !== state.id); })
RECURSIVE FilterStatements(_, _, _)
FilterStatements(arr, previous, states) ==
    IF Len(previous) = 0 THEN arr
    ELSE FilterStatements(
             IF IsRemoved(Head(previous), states)
             THEN SelectSeq(arr, LAMBDA statement : statement.state # Head(previous).id)
             ELSE arr,
             Tail(previous), states)

\* ---- PUT /characters/:characterId
putCharacter(characterId, body) ==
    /\ LET i == FindCharacter(characters, characterId)
       IN IF ~InputPasses(body)
          THEN /\ charReq' = CharRes("update", characterId, 400)
               /\ UNCHANGED <<CharacterState, characters, statements>>
          ELSE IF characterId \notin 1..Character
          THEN /\ charReq' = CharRes("update", characterId, 404)
               /\ UNCHANGED <<CharacterState, characters, statements>>
          ELSE IF i = 0
          THEN \* setCharacterInfo(undefined, body) throws
               /\ charReq' = CharRes("update", characterId, 500)
               /\ UNCHANGED <<CharacterState, characters, statements>>
          ELSE IF ~characters[i].states.array
          THEN LET made == createNumericalState(CharacterState, characterId, body,
                                                characters[i].states.id)
                   checked == checkMinMaxValues(characterId, made.states,
                                                characters[i].states, characters)
               IN /\ CharacterState' = made.rows
                  /\ characters' = [checked EXCEPT ![i].states = made.states]
                  /\ statements' = statements
                  /\ charReq' = [CharRes("update", characterId, 200) EXCEPT
                                     !.purged = checked # characters]
          ELSE LET made == createMultiStates(CharacterState, characterId,
                                             body.alternatives)
               IN /\ CharacterState' = made.rows
                  /\ IF made.resolved
                     THEN /\ characters' = [characters EXCEPT ![i].states = made.states]
                          /\ statements' =
                                 IF made.states # characters[i].states
                                 THEN FilterStatements(statements,
                                          characters[i].states.list, made.states.list)
                                 ELSE statements
                          /\ charReq' = [CharRes("update", characterId, 200) EXCEPT
                                  !.removed = Len(statements) - Len(statements')]
                     ELSE /\ UNCHANGED <<characters, statements>>
                          /\ charReq' = CharRes("update", characterId, 500)
    /\ UNCHANGED Character
    /\ UNCHANGED exceptCharacters

\* ============================================= taxon names (modifyTaxonNames)
\* The taxon object modifyTaxonNames is handed, with the properties it writes:
\* [id, scientificName, vernacularName, description].  vernacularName and
\* description are Undefined or Defined(m), m the object with a `no` and an
\* `en` property, or one of them.  A request body is a function on the names
\* of the fields it carries.
Texts == {"", "x"}

NameFields == {"vernacularNameNo", "vernacularNameEn", "descriptionNo", "descriptionEn"}

\* the request bodies: scientificName of length 1 or more, the rest optional
NameBodies ==
    UNION {{[f \in {"scientificName"} \cup F |->
                IF f = "scientificName" THEN n ELSE t[f]] :
              n \in Names, t \in [F -> Texts]} : F \in SUBSET NameFields}

\* if (body.field): the body carries the field and it is not the empty string
Truthy(body, field) == field \in DOMAIN body /\ body[field] # ""

\* taxon.vernacularName.no = v on an object, taxon.vernacularName = { no: v }
\* without one
SetLanguage(property, language, v) ==
    IF property # <<>>
    THEN <<[l \in DOMAIN property[1] \cup {language} |->
               IF l = language THEN v ELSE property[1][l]]>>
    ELSE <<[l \in {language} |-> v]>>

\* one `if (body.field) { ... }` block of modifyTaxonNames
WriteField(taxon, body, field, property, language) ==
    IF Truthy(body, field)
    THEN [taxon EXCEPT ![property] = SetLanguage(taxon[property], language, body[field])]
    ELSE taxon

\* a modifyTaxonNames that writes nothing more once the name is taken
WritesOthers_IfValid(valid) == valid

\* modifyTaxonNames goes on to the other fields whatever `valid` is
WritesOthers(valid) == TRUE

\* modifyTaxonNames(taxon, taxonId, taxa, body): [valid, taxon], the value
\* returned and the taxon object afterwards
modifyTaxonNames_all(taxon, taxonId, arr, body) ==
    LET valid == IF Truthy(body, "scientificName")
                 THEN modifyTaxonNames(arr, taxonId, body.scientificName)
                 ELSE TRUE
        named == IF Truthy(body, "scientificName") /\ valid
                 THEN [taxon EXCEPT !.scientificName = body.scientificName]
                 ELSE taxon
        vno == WriteField(named, body, "vernacularNameNo", "vernacularName", "no")
        ven == WriteField(vno, body, "vernacularNameEn", "vernacularName", "en")
        dno == WriteField(ven, body, "descriptionNo", "description", "no")
        den == WriteField(dno, body, "descriptionEn", "description", "en")
    IN [valid |-> valid, taxon |-> IF WritesOthers(valid) THEN den ELSE named]

\* the objects a vernacularName or description property can hold
LanguageObjects ==
    {<<>>} \cup {<<m>> : m \in UNION {[L -> {"o"}] : L \in (SUBSET {"no", "en"}) \ {{}}}}

\* ---- the call PUT /taxa/:taxonId makes once it has found tmpTaxon
modifyNames(taxonId, vernacularName, description, body) ==
    /\ namesCall = NoNamesCall
    /\ findTaxonById(taxa, taxonId) # <<>>
    /\ LET node == NodeAt(taxa, findTaxonById(taxa, taxonId))
           taxon == [id |-> node.id, scientificName |-> node.scientificName,
                     vernacularName |-> vernacularName, description |-> description]
           call == modifyTaxonNames_all(taxon, taxonId, taxa, body)
       IN namesCall' = [taxon |-> <<taxon>>, body |-> <<body>>,
                        valid |-> call.valid, result |-> <<call.taxon>>]
    /\ UNCHANGED <<storeVars, taxonVars, characterVars, mediaDocVars,
                   deletionVars, characterRowVars, permissionVars>>

\* ================================================ key permissions (middleware)
\* req.user is a user id, 0 without a session.  A user's role grants a set of
\* permissions; the user is in a set of workgroups.  A key has a creator and a
\* workgroupId, 0 for null.
UserIds == {1, 2}

Workgroups == {1, 2}

\* the permissions the routes ask isPermittedKey for
Permissions == {"EDIT_KEY", "PUBLISH_KEY", "SHARE_KEY", "EDIT_KEY_INFO"}

\* the ids a request can name as its key: key 1, and 2, which no key has
NamedKeys == {1, 2}

\* getUserPermissions(userId, [permission]): role_permissions INNER JOIN on
\* the user's role, user_workgroups LEFT JOIN: one row per workgroup of the
\* user when the role grants the permission, one row with a null workgroup_id
\* when the user is in none, no row when the role does not grant it
getUserPermissions(userId, permission) ==
    IF permission \notin User[userId].permissions THEN {}
    ELSE IF User[userId].workgroups = {}
    THEN {[permission_name |-> permission, workgroup_id |-> 0]}
    ELSE {[permission_name |-> permission, workgroup_id |-> w] :
             w \in User[userId].workgroups}

\* a test that leaves out the null workgroupId, which workgroups.push(null)
\* has put in the list
OutsideWorkgroups_NullIncluded(workgroupId, workgroups) == workgroupId \notin workgroups

\* keys[0].workgroupId === null || !res.locals.workgroups.includes(keys[0].workgroupId)
OutsideWorkgroups(workgroupId, workgroups) ==
    workgroupId = 0 \/ workgroupId \notin workgroups

\* the permissionsSet of isPermittedKey after the key and the editors were read
PermissionsSet(user, permission, keyId) ==
    LET permissions == getUserPermissions(user, permission)
        granted == {row.permission_name : row \in permissions}
        workgroups == {row.workgroup_id : row \in permissions} \cup {0}
        ofKey == IF keyId \in DOMAIN KeyInfo
                 THEN IF KeyInfo[keyId].createdBy = user
                      THEN granted \cup {"PUBLISH_KEY", "SHARE_KEY", "EDIT_KEY",
                                         "EDIT_KEY_INFO"}
                      ELSE IF OutsideWorkgroups(KeyInfo[keyId].workgroupId, workgroups)
                      THEN {}
                      ELSE granted
                 ELSE {}
    IN IF [keyId |-> keyId, userId |-> user] \in Editors
       THEN ofKey \cup {"EDIT_KEY"}
       ELSE ofKey

AuthRes(user, permission, keyId, next, res) ==
    [user |-> user, permission |-> permission, keyId |-> keyId,
     next |-> next, res |-> res]

\* ---- isPermittedKey(permission)(req, res, next): next() or a status code;
\* without the User row, user.organization_id throws and the answer is 500.
\* The request names a key id (isValidInput runs first) and the four queries
\* are answered by the database.
isPermittedKey(user, permission, keyId) ==
    /\ auth' = IF user = 0
               THEN AuthRes(user, permission, keyId, FALSE, 403)
               ELSE IF user \notin DOMAIN User
               THEN AuthRes(user, permission, keyId, FALSE, 500)
               ELSE IF permission \in PermissionsSet(user, permission, keyId)
               THEN AuthRes(user, permission, keyId, TRUE, 0)
               ELSE AuthRes(user, permission, keyId, FALSE, 403)
    /\ UNCHANGED <<User, KeyInfo, Editors>>
    /\ UNCHANGED <<storeVars, taxonVars, characterVars, mediaDocVars,
                   deletionVars, characterRowVars, namesCall>>

\* ------------------------------------------------------------------ next
LifecycleStep(p) ==
    \/ \E k \in KeyIds : PostRevision_findKey(p, k)
    \/ createRevision_create(p)
    \/ createRevision_link(p)
    \/ createRevision_promote(p)
    \/ createRevision_setKey(p)
    \/ \E r \in RevisionIds, k \in KeyIds : findRevisionForKey_join(p, r, k)
    \/ findRevisionForKey_rev(p)
    \/ findRevisionForKey_key(p)
    \/ \E s \in StatusValues : updateStatus_write(p, s)
    \/ \E k \in KeyIds : putKey_findAll(p, k)
    \/ \E r \in RevisionIds : handleUpdateKey_findRev(p, r)
    \/ handleUpdateKey_update(p)

MediaStep(p) ==
    \/ \E r \in RevisionIds, k \in KeyIds : createMedia(p, r, k)
    \/ addMediaToRevision_findRev(p)
    \/ addMediaToRevision_findJoin(p)
    \/ addMediaToRevision_update(p)

vars == <<storeVars, taxonVars, characterVars, restVars>>

\* Spec: one key, the lifecycle handlers interleaved at every await
Init == InitStore({1}, Requests)

Next == \E p \in Requests : LifecycleStep(p)

Spec == Init /\ [][Next]_vars

\* SpecSeq: NumKeys keys, the lifecycle handlers one request at a time
InitSeq == InitStore(KeyIds, {1})

SpecSeq == InitSeq /\ [][Next]_vars

\* SpecMedia: one key, one request at a time, the lifecycle handlers and the
\* media attachment, which rewrites a revision row in place
InitMedia == InitStore({1}, {1})

NextMedia == \E p \in Requests : LifecycleStep(p) \/ MediaStep(p)

SpecMedia == InitMedia /\ [][NextMedia]_vars

\* SpecRepoint: the status update and the key update interleaved, from the
\* store that POST /revisions (twice, for key 1) and a status update of
\* revision 2 to ACCEPTED leave behind
InitRepoint ==
    /\ Key = [k \in {1} |-> [revisionId |-> 1]]
    /\ Revision = <<[status |-> "ACCEPTED", mediaElements |-> <<>>],
                    [status |-> "ACCEPTED", mediaElements |-> <<>>]>>
    /\ Revisions = {[keyId |-> 1, revisionId |-> 1],
                    [keyId |-> 1, revisionId |-> 2]}
    /\ Media = 0
    /\ req = [p \in Requests |-> Idle]
    /\ last = Sent("updateStatus", 200)
    /\ InitTaxa
    /\ InitCharacters
    /\ InitRest

NextRepoint ==
    \E p \in Requests :
        \/ \E r \in RevisionIds, k \in KeyIds : findRevisionForKey_join(p, r, k)
        \/ findRevisionForKey_rev(p)
        \/ findRevisionForKey_key(p)
        \/ \E s \in StatusValues : updateStatus_write(p, s)
        \/ \E k \in KeyIds : putKey_findAll(p, k)
        \/ \E r \in RevisionIds : handleUpdateKey_findRev(p, r)
        \/ handleUpdateKey_update(p)

SpecRepoint == InitRepoint /\ [][NextRepoint]_vars

\* SpecEdit: one key, POST /revisions and the edit handlers interleaved at
\* every await
EditStep(p) ==
    \/ \E r \in RevisionIds, k \in KeyIds : edit_join(p, r, k)
    \/ edit_rev(p)
    \/ \E valid \in BOOLEAN : edit_key(p, valid)

CreateStep(p) ==
    \/ \E k \in KeyIds : PostRevision_findKey(p, k)
    \/ createRevision_create(p)
    \/ createRevision_link(p)
    \/ createRevision_promote(p)
    \/ createRevision_setKey(p)

InitEdit == InitStore({1}, Requests)

NextEdit == \E p \in Requests : CreateStep(p) \/ EditStep(p)

SpecEdit == InitEdit /\ [][NextEdit]_vars

\* SpecAttach: media attachments interleaved at every await, on the store
\* that POST /revisions leaves behind for key 1
InitAttach ==
    /\ Key = [k \in {1} |-> [revisionId |-> 1]]
    /\ Revision = <<[status |-> "ACCEPTED", mediaElements |-> <<>>]>>
    /\ Revisions = {[keyId |-> 1, revisionId |-> 1]}
    /\ Media = 0
    /\ req = [p \in Requests |-> Idle]
    /\ last = Sent("createRevision", 200)
    /\ InitTaxa
    /\ InitCharacters
    /\ InitRest

NextAttach == \E p \in Requests : MediaStep(p)

SpecAttach == InitAttach /\ [][NextAttach]_vars

\* the store without keys and without requests in flight
NoStore ==
    /\ Key = <<>>
    /\ Revision = <<>>
    /\ Revisions = {}
    /\ Media = 0
    /\ req = [p \in Requests |-> Off]
    /\ last = Sent("none", 0)

\* taxon requests on one key, one after the other, with every name of Names.
\* The Taxon table is shared by all keys: row 1 belongs to a taxon of another
\* key, so that this key's tree is empty and holds at most MaxTaxa - 1 taxa.
InitTaxon ==
    /\ NoStore
    /\ taxa = <<>>
    /\ Taxon = 1
    /\ taxonRes = 0
    /\ InitCharacters
    /\ InitRest

NextTaxon ==
    \/ \E name \in Names, parentId \in 0..MaxTaxa : postTaxon(name, parentId)
    \/ \E taxonId \in TaxonIds, name \in Names : putTaxon_names(taxonId, name)
    \/ \E taxonId \in TaxonIds, name \in Names, parentId \in 0..MaxTaxa :
           putTaxon_parent(taxonId, name, parentId)

SpecTaxon == InitTaxon /\ [][NextTaxon]_vars

\* reparenting alone, on trees of up to MaxTaxa taxa: the client names the
\* i-th taxon it creates FreshName(i), and every update request carries the
\* scientificName the taxon already has.
FreshName(i) == <<"a", "b", "c", "d", "e">>[((i - 1) % 5) + 1]

CurrentName(arr, taxonId) ==
    IF findTaxonById(arr, taxonId) = <<>> THEN "a"
    ELSE NodeAt(arr, findTaxonById(arr, taxonId)).scientificName

InitReparent ==
    /\ NoStore
    /\ InitTaxa
    /\ InitCharacters
    /\ InitRest

NextReparent ==
    \/ \E parentId \in 0..MaxTaxa : postTaxon(FreshName(Taxon + 1), parentId)
    \/ \E taxonId \in TaxonIds, parentId \in 0..MaxTaxa :
           putTaxon_parent(taxonId, CurrentName(taxa, taxonId), parentId)

SpecReparent == InitReparent /\ [][NextReparent]_vars

\* SpecTaxonStatements: update requests on a tree of three taxa, one below the
\* other, each with one statement; every request carries the scientificName
\* the taxon already has
InitTaxonStatements ==
    /\ NoStore
    /\ taxa = <<[NewTaxon(1, "a") EXCEPT !.children =
                    <<[NewTaxon(2, "b") EXCEPT !.children = <<NewTaxon(3, "c")>>]>>]>>
    /\ Taxon = 3
    /\ taxonRes = 0
    /\ InitCharacters
    /\ InitMediaDoc
    /\ NoDeletable
    /\ NoCalls
    /\ Character = 0
    /\ CharacterState = <<>>
    /\ statements = <<[taxonId |-> 1, state |-> 1], [taxonId |-> 2, state |-> 1],
                      [taxonId |-> 3, state |-> 1]>>
    /\ charReq = NoCharReq

NextTaxonStatements ==
    \E taxonId \in TaxonIds, reparent \in BOOLEAN, parentId \in 0..MaxTaxa,
       asString \in BOOLEAN :
        putTaxon_body(taxonId, CurrentName(taxa, taxonId), reparent, parentId, asString)

SpecTaxonStatements == InitTaxonStatements /\ [][NextTaxonStatements]_vars

\* state-removal requests on a revision whose two characters carry any premises
InitPremise ==
    /\ NoStore
    /\ InitTaxa
    /\ characters \in {<<[id |-> 1, logicalPremise |-> p],
                         [id |-> 2, logicalPremise |-> q]>> :
                           p \in Premises, q \in Premises}
    /\ statesReq = NoStatesReq
    /\ InitRest

NextPremise == \E states \in StateLists : putStates(states)

SpecPremise == InitPremise /\ [][NextPremise]_vars

\* media requests on one revision, one after the other: files are attached to
\* a taxon, a character and a state, detached again, and their elements edited
InitMediaDocSpec ==
    /\ NoStore
    /\ InitTaxa
    /\ InitCharacters
    /\ InitRest

NextMediaDoc ==
    \/ \E kind \in EntityKinds, creators \in CreatorLists :
           addMediaToRevision(kind, creators)
    \/ \E url \in EntityKinds, bodyMedia \in MediaLists :
           deleteEntityMedia(url, bodyMedia)
    \/ \E mediaId \in ElementIds,
          creators \in {Undefined} \cup {Defined(c) : c \in CreatorLists} :
           putRevisionMedia(mediaId, creators)

SpecMediaDoc == InitMediaDocSpec /\ [][NextMediaDoc]_vars

\* one DELETE /media/key/:keyId request on the files of a key
InitDelete ==
    /\ NoStore
    /\ InitTaxa
    /\ InitCharacters
    /\ InitMediaDoc
    /\ InitDeletion
    /\ NoCharacterRows
    /\ NoCalls

NextDelete ==
    \/ \E body \in (SUBSET (1..(NumDeletable + 1))) \ {{}} : deleteKeyMedia(body)
    \/ \E m \in DeletableIds : deleteMedia_find(m)
    \/ \E m \in DeletableIds, path \in Paths, outcome \in {"ok"} \cup ErrorCodes :
           unlink(m, path, outcome)
    \/ \E m \in DeletableIds : destroyMediaInfo(m)
    \/ \E m \in DeletableIds : destroyMedia(m)
    \/ deleteKeyMedia_send

SpecDelete == InitDelete /\ [][NextDelete]_vars

\* the request bodies of the character handlers that pass the validators:
\* alternatives is an array (here of different state ids), or min, max and
\* stepSize are numbers.  A unit with a type other than NUMERICAL is left out:
\* the handlers read the unit in the input check only, after the type.
NoRepeat(list) == \A i \in DOMAIN list, j \in DOMAIN list : list[i] = list[j] => i = j

AlternativeLists == {a \in SeqsUpTo(1..MaxStateRows, MaxAlternatives) : NoRepeat(a)}

Values == {0, 1, 2}

StepSizes == {1, 2}

TypesAndUnits == {<<"NUMERICAL", TRUE>>, <<"NUMERICAL", FALSE>>, <<"MULTISTATE", FALSE>>}

ListBodies ==
    {[type |-> t[1], unit |-> t[2], alternatives |-> Defined(a),
      min |-> NoValue, max |-> NoValue, stepSize |-> NoValue] :
        t \in TypesAndUnits, a \in AlternativeLists}

NumericalBodies(values, steps) ==
    {[type |-> t[1], unit |-> t[2], alternatives |-> Undefined,
      min |-> min, max |-> max, stepSize |-> stepSize] :
        t \in TypesAndUnits, min \in values, max \in values, stepSize \in steps}

Statement(s) == [taxonId |-> 1, state |-> s]

\* character and state requests on a revision with one multistate character
\* of two states and a statement of a taxon on each
InitCharacter ==
    /\ NoStore
    /\ InitTaxa
    /\ InitMediaDoc
    /\ NoDeletable
    /\ NoCalls
    /\ Character = 1
    /\ CharacterState = <<1, 1>>
    /\ characters = <<[id |-> 1, states |-> ListStates(<<[id |-> 1], [id |-> 2]>>),
                       logicalPremise |-> Undefined]>>
    /\ statesReq = NoStatesReq
    /\ statements = <<Statement(1), Statement(2)>>
    /\ charReq = NoCharReq

NextCharacter ==
    \/ \E characterId \in {0} : postState(characterId)
    \/ \E body \in ListBodies \cup NumericalBodies({0}, {1}) : postCharacter(body)
    \/ \E characterId \in 1..MaxCharacterRows,
          body \in ListBodies \cup NumericalBodies({0}, {1}) :
           putCharacter(characterId, body)

SpecCharacter == InitCharacter /\ [][NextCharacter]_vars

\* updates of a multistate character whose states are any of the state rows,
\* on a revision with any statements of a taxon on these states
InitStatements ==
    /\ NoStore
    /\ InitTaxa
    /\ InitMediaDoc
    /\ NoDeletable
    /\ NoCalls
    /\ Character = 1
    /\ CharacterState = [s \in 1..MaxStateRows |-> 1]
    /\ characters \in {<<[id |-> 1, states |-> ListStates(StatesOf(a)),
                          logicalPremise |-> Undefined]>> :
                            a \in {b \in AlternativeLists : Len(b) > 1}}
    /\ statesReq = NoStatesReq
    /\ statements \in SeqsUpTo({Statement(s) : s \in 1..MaxStateRows}, 2)
    /\ charReq = NoCharReq

NextStatements ==
    \E characterId \in 1..MaxCharacterRows, body \in ListBodies :
        putCharacter(characterId, body)

SpecStatements == InitStatements /\ [][NextStatements]_vars

\* updates of a numerical character (2, with state row 3) of any values, on a
\* revision whose multistate character (1) has any premise
InitNumerical ==
    /\ NoStore
    /\ InitTaxa
    /\ InitMediaDoc
    /\ NoDeletable
    /\ NoCalls
    /\ Character = 2
    /\ CharacterState = <<1, 1, 2>>
    /\ characters \in
         {<<[id |-> 1, states |-> ListStates(<<[id |-> 1], [id |-> 2]>>),
             logicalPremise |-> p],
            [id |-> 2, states |-> NumericalStates(3, min, max, stepSize),
             logicalPremise |-> Undefined]>> :
              p \in Premises, min \in Values, max \in Values, stepSize \in StepSizes}
    /\ statesReq = NoStatesReq
    /\ statements = <<>>
    /\ charReq = NoCharReq

NextNumerical ==
    \E characterId \in 1..MaxCharacterRows,
       body \in {b \in NumericalBodies(Values, StepSizes) : InputPasses(b)} :
        putCharacter(characterId, body)

SpecNumerical == InitNumerical /\ [][NextNumerical]_vars

\* SpecNames: one modifyTaxonNames call on a taxon of a tree of two taxa, one
\* below the other or both at the top
InitNames ==
    /\ NoStore
    /\ taxa \in {<<NewTaxon(1, "a"), NewTaxon(2, "b")>>,
                 <<[NewTaxon(1, "a") EXCEPT !.children = <<NewTaxon(2, "b")>>]>>}
    /\ Taxon = 2
    /\ taxonRes = 0
    /\ InitCharacters
    /\ InitRest

NextNames ==
    \E taxonId \in 1..2, vernacularName \in LanguageObjects,
       description \in LanguageObjects, body \in NameBodies :
        modifyNames(taxonId, vernacularName, description, body)

SpecNames == InitNames /\ [][NextNames]_vars

\* SpecPermission: requests through isPermittedKey, for any role and
\* workgroups of user 1, any creator and workgroup of key 1, any editors rows
\* of user 1; user 2 has no role and no workgroup
InitPermission ==
    /\ NoStore
    /\ req = [p \in Requests |-> Off]
    /\ last = Sent("none", 0)
    /\ InitTaxa
    /\ InitCharacters
    /\ InitMediaDoc
    /\ NoDeletable
    /\ NoCharacterRows
    /\ namesCall = NoNamesCall
    /\ User \in {[u \in UserIds |->
                    IF u = 1 THEN [permissions |-> P, workgroups |-> W]
                    ELSE [permissions |-> {}, workgroups |-> {}]] :
                  P \in SUBSET Permissions, W \in SUBSET Workgroups}
    /\ KeyInfo \in {<<[createdBy |-> u, workgroupId |-> w]>> :
                      u \in UserIds, w \in {0} \cup Workgroups}
    /\ Editors \in SUBSET {[keyId |-> k, userId |-> 1] : k \in NamedKeys}
    /\ auth = NoAuth

NextPermission ==
    \E user \in {0, 1}, permission \in Permissions, keyId \in NamedKeys :
        isPermittedKey(user, permission, keyId)

SpecPermission == InitPermission /\ [][NextPermission]_vars

\* ------------------------------------------------------ revision lifecycle
Linked(k, r) == [keyId |-> k, revisionId |-> r] \in Revisions

AllIdle == \A p \in Requests : req[p].pc \in {"idle", "off"}

\* C1: createRevision on a key whose revisionId is empty stores the new
\* revision as ACCEPTED and sets key.revisionId to its id; a later
\* createRevision on the same key leaves key.revisionId unchanged and stores
\* the new revision as DRAFT (requests served one at a time).
C1_FirstRevisionAutoAccepted ==
    [][\A p \in Requests :
        /\ (req[p].pc = "cr_link" /\ Key[req[p].keyId].revisionId = 0)
               => req'[p].pc = "cr_promote"
        /\ (req[p].pc = "cr_setkey" /\ req'[p].pc = "idle")
               => /\ Revision'[req[p].revisionId].status = "ACCEPTED"
                  /\ Key'[req[p].keyId].revisionId = req[p].revisionId
        /\ (req[p].pc = "cr_link" /\ Key[req[p].keyId].revisionId # 0)
               => /\ req'[p].pc = "idle"
                  /\ Key' = Key
                  /\ Revision'[req[p].revisionId].status = "DRAFT"
    ]_vars

\* a key whose first revision is ACCEPTED and current and whose second
\* revision was just created as DRAFT
C1_Witness ==
    /\ AllIdle
    /\ last = Sent("createRevision", 200)
    /\ Len(Revision) = 2
    /\ \E k \in DOMAIN Key :
           /\ Linked(k, 1) /\ Linked(k, 2)
           /\ Key[k].revisionId = 1
           /\ Revision[1].status = "ACCEPTED"
           /\ Revision[2].status = "DRAFT"

\* C2: in every reachable state a key's revisionId, when set, references a
\* revision whose join row has keyId equal to the key's id.
C2_PointerLinkedToKey ==
    \A k \in DOMAIN Key :
        Key[k].revisionId # 0 => Linked(k, Key[k].revisionId)

\* C3: for every interleaving of requests that fetch the key and then call
\* createRevision, once key.revisionId is set in the store no createRevision
\* step overwrites it, and at most one created revision is promoted.
C3_PointerSetOnce ==
    [][\A p \in Requests :
        /\ (req[p].pc = "cr_setkey" /\ req'[p].pc = "idle")
               => Key[req[p].keyId].revisionId = 0
        /\ (req[p].pc = "cr_promote" /\ req'[p].pc = "cr_setkey")
               => /\ Key[req[p].keyId].revisionId = 0
                  /\ \A q \in Requests \ {p} :
                         ~(req[q].pc = "cr_setkey" /\ req[q].keyId = req[p].keyId)
    ]_vars

\* C4: the status update never rewrites the status of the key's current
\* revision: a target equal to key.revisionId is answered 409 with the
\* status unchanged, also when a key update that repoints the key runs
\* between the handler's read of the key and its write.
C4_CurrentRevisionNeverRewritten ==
    [][\A p \in Requests :
        /\ (req[p].pc = "frk_key" /\ req'[p].pc # "frk_key"
                /\ Key[req[p].keyId].revisionId = req[p].revisionId)
               => /\ last' = Sent("updateStatus", 409)
                  /\ Revision' = Revision
        /\ (req[p].pc = "st_update" /\ req'[p].pc = "idle")
               => Key[req[p].keyId].revisionId # req[p].revisionId
    ]_vars

\* one explicit step forward along DRAFT -> REVIEW -> ACCEPTED
StepForward(from, to) ==
    \/ from = "DRAFT" /\ to = "REVIEW"
    \/ from = "REVIEW" /\ to = "ACCEPTED"

C6_AcceptedRevisionImmutable ==
    [][\A r \in DOMAIN Revision :
        Revision[r].status = "ACCEPTED"
            => Revision'[r].mediaElements = Revision[r].mediaElements
    ]_vars

\* ----------------------------------------------------------------- taxon tree
\* every taxon object of a tree, parents before children
RECURSIVE Flatten(_)
Flatten(arr) ==
    IF Len(arr) = 0 THEN <<>>
    ELSE <<arr[1]>> \o Flatten(arr[1].children) \o Flatten(Tail(arr))

Occurrences(arr, id) ==
    Cardinality({i \in DOMAIN Flatten(arr) : Flatten(arr)[i].id = id})

\* the ids of the taxa that have a taxon with this id among their children,
\* `owner` for the list itself (0 for the top-level list)
RECURSIVE ParentsOf(_, _, _)
ParentsOf(arr, owner, id) ==
    UNION {(IF arr[i].id = id THEN {owner} ELSE {})
               \cup ParentsOf(arr[i].children, arr[i].id, id) : i \in DOMAIN arr}

\* no two taxon objects of the tree have the same scientificName, ignoring case
UniqueNames(arr) ==
    \A i, j \in DOMAIN Flatten(arr) :
        i # j => toUpperCase(Flatten(arr)[i].scientificName)
                     # toUpperCase(Flatten(arr)[j].scientificName)

\* a taxon other than `id` has the name, ignoring case
NameOfOther(arr, name, id) ==
    \E i \in DOMAIN Flatten(arr) :
        /\ Flatten(arr)[i].id # id
        /\ toUpperCase(Flatten(arr)[i].scientificName) = toUpperCase(name)

\* a tree as the requests are meant to keep it: every taxon in it once, and
\* no parentId stored
WellFormed(arr) ==
    /\ \A id \in TaxonIds : Occurrences(arr, id) <= 1
    /\ \A i \in DOMAIN Flatten(arr) : Flatten(arr)[i].parentId = 0

\* C7: a create or update request whose scientificName is, ignoring case, the
\* name of a different taxon anywhere in the tree ends with 409 and creates no
\* revision; an update that carries the taxon's own current name succeeds; and
\* a revision produced from a tree with unique names has unique names.
C7_ScientificNameUnique ==
    [][/\ \A name \in Names, parentId \in 0..MaxTaxa :
              (postTaxon(name, parentId) /\ NameOfOther(taxa, name, 0))
                  => (taxonRes' = 409 /\ taxa' = taxa /\ Taxon' = Taxon)
       /\ \A taxonId \in 1..Taxon, name \in Names, parentId \in 0..MaxTaxa :
              ((putTaxon_names(taxonId, name) \/ putTaxon_parent(taxonId, name, parentId))
                   /\ Occurrences(taxa, taxonId) > 0
                   /\ NameOfOther(taxa, name, taxonId))
                  => (taxonRes' = 409 /\ taxa' = taxa)
       /\ \A taxonId \in 1..Taxon :
              (putTaxon_names(taxonId, CurrentName(taxa, taxonId))
                   /\ Occurrences(taxa, taxonId) > 0)
                  => taxonRes' = 200
       /\ (UniqueNames(taxa) /\ taxonRes' = 200) => UniqueNames(taxa')
      ]_vars

\* C8: when an update that keeps the name moves taxon X (anywhere in a well-formed tree) under an
\* existing taxon B that is neither its parent nor X nor below X, X is
\* afterwards in the tree exactly once, as a child of B; when it moves X to
\* the root (parentId 0), X is afterwards in the tree exactly once, in the
\* top-level list.
C8_ReparentMovesTaxon ==
    [][\A X \in TaxonIds, B \in 0..MaxTaxa :
          (/\ putTaxon_parent(X, CurrentName(taxa, X), B)
           /\ taxonRes' = 200
           /\ WellFormed(taxa)
           /\ Occurrences(taxa, X) = 1
           /\ ParentsOf(taxa, 0, X) # {B}
           /\ B # 0 => /\ B # X
                       /\ Occurrences(taxa, B) = 1
                       /\ Occurrences(NodeAt(taxa, findTaxonById(taxa, X)).children, B) = 0)
              => (Occurrences(taxa', X) = 1 /\ ParentsOf(taxa', 0, X) = {B})
      ]_vars

\* C9: an update that carries the taxon's current name and, as parentId, the
\* id of its current parent (0 for a top-level taxon) produces a tree equal to
\* the one it started from, the order of every list included.
C9_ReparentIdempotent ==
    [][\A X \in TaxonIds, P \in 0..MaxTaxa :
          (/\ putTaxon_parent(X, CurrentName(taxa, X), P)
           /\ taxonRes' = 200
           /\ WellFormed(taxa)
           /\ Occurrences(taxa, X) = 1
           /\ ParentsOf(taxa, 0, X) = {P})
              => taxa' = taxa
      ]_vars

\* ---------------------------------------------------------- character premises
\* the positions of the clauses of disjunction d whose stateId is not s
KeptClauses(d, s) == {i \in DOMAIN d : d[i].stateId # s}

\* the n-th smallest member of a set of positions
Nth(I, n) == CHOOSE i \in I : Cardinality({k \in I : k <= i}) = n

\* disjunction d without exactly the clauses of state s, the others in order
WithoutState(d, s) ==
    [n \in 1..Cardinality(KeptClauses(d, s)) |-> d[Nth(KeptClauses(d, s), n)]]

\* the positions of the disjunctions of p that are left with more than one clause
Surviving(p, s) == {i \in DOMAIN p : ~(Cardinality(KeptClauses(p[i], s)) <= 1)}

\* what the claim says becomes of a premise when state s is removed
Invalidated(premise, s) ==
    IF premise = Undefined THEN Undefined
    ELSE IF Cardinality(Surviving(premise[1], s)) = 1 THEN Undefined
    ELSE Defined([n \in 1..Cardinality(Surviving(premise[1], s)) |->
                     WithoutState(premise[1][Nth(Surviving(premise[1], s), n)], s)])

\* ... and of the characters when the states of a list are removed in turn
RECURSIVE InvalidatedInTurn(_, _)
InvalidatedInTurn(chars, states) ==
    IF Len(states) = 0 THEN chars
    ELSE InvalidatedInTurn(
             [c \in DOMAIN chars |->
                 [id |-> chars[c].id,
                  logicalPremise |-> Invalidated(chars[c].logicalPremise, Head(states))]],
             Tail(states))

\* C10: a state-removal request leaves every character with the premise
\* obtained by taking, for each id of the request's list in turn, the clauses
\* of that state out of every disjunction, dropping the disjunctions left
\* with at most one clause, and making the premise undefined when exactly one
\* disjunction is left.
C10_StatePremisesInvalidated ==
    [][putStates(statesReq'.states)
          => characters' = InvalidatedInTurn(characters, statesReq'.states)
      ]_vars

\* a request that removed state 1 was answered: it made the premise of the
\* first character undefined, and it took clauses out of the premise of the
\* second, which keeps two disjunctions of two clauses
C10_Witness ==
    /\ statesReq.res = 200
    /\ statesReq.states = <<1>>
    /\ statesReq.cleared = {1}
    /\ statesReq.pruned = {2}
    /\ characters[1].logicalPremise = Undefined
    /\ characters[2].logicalPremise
           = Defined(<<<<Clause(2), Clause(3)>>, <<Clause(2), Clause(3)>>>>)

\* C11: when a request removes state a alone and a character's premise is a
\* single disjunction of two clauses, on states a and b, the character's
\* premise is undefined afterwards.
C11_SingleDisjunctionCleared ==
    [][\A a \in StateIds, b \in StateIds, c \in DOMAIN characters :
          (/\ a # b
           /\ putStates(<<a>>)
           /\ \/ characters[c].logicalPremise = Defined(<<<<Clause(a), Clause(b)>>>>)
              \/ characters[c].logicalPremise = Defined(<<<<Clause(b), Clause(a)>>>>))
              => characters'[c].logicalPremise = Undefined
      ]_vars

\* ---------------------------------------------------------- revision media
\* the media ids of a list, whichever way each is written
IdsOf(list) == {list[i].n : i \in DOMAIN list}

\* the list without the entries whose id is in ids, the others in order
RECURSIVE Without(_, _)
Without(list, ids) ==
    IF Len(list) = 0 THEN <<>>
    ELSE (IF Head(list).n \in ids THEN <<>> ELSE <<Head(list)>>)
         \o Without(Tail(list), ids)

RECURSIVE WithoutElements(_, _)
WithoutElements(mediaElements, ids) ==
    IF Len(mediaElements) = 0 THEN <<>>
    ELSE (IF Head(mediaElements).id.n \in ids THEN <<>> ELSE <<Head(mediaElements)>>)
         \o WithoutElements(Tail(mediaElements), ids)

\* the ids of a list in order, as numbers
RECURSIVE Numbers(_)
Numbers(list) ==
    IF Len(list) = 0 THEN <<>> ELSE <<Head(list).n>> \o Numbers(Tail(list))

\* C12: for every entity with a media list and every request that detaches
\* media ids M, all of them in the entity's list, the entity's list afterwards
\* is the old one without the ids of M, mediaElements is the old one without
\* the elements of those ids, both in the old order, and persons is unchanged.
C12_DetachRemovesExactlyM ==
    [][\A url \in EntityKinds, bodyMedia \in MediaLists :
          (/\ entities[url] # Undefined
           /\ IdsOf(bodyMedia) \subseteq IdsOf(entities[url][1])
           /\ deleteEntityMedia(url, bodyMedia))
              => /\ entities'[url] # Undefined
                 /\ Numbers(entities'[url][1])
                        = Numbers(Without(entities[url][1], IdsOf(bodyMedia)))
                 /\ revisionMedia'.mediaElements
                        = WithoutElements(revisionMedia.mediaElements, IdsOf(bodyMedia))
                 /\ revisionMedia'.persons = revisionMedia.persons
      ]_vars

\* C17: after any sequence of media attachments and media-element updates on a
\* revision, media.persons holds at most one entry per person id.
C17_PersonsDeduplicated ==
    \A i \in DOMAIN revisionMedia.persons, j \in DOMAIN revisionMedia.persons :
        revisionMedia.persons[i].id = revisionMedia.persons[j].id => i = j

\* ------------------------------------------------------ media file deletion
\* C13: a deleteMedia whose unlinks reported nothing but missing files (ENOENT)
\* does not fail: it goes on to delete the MediaInfo rows and the Media row.
C13_MissingFileTolerated ==
    \A m \in DOMAIN del :
        del[m].errors \subseteq {"ENOENT"} => del[m].pc # "failed"

\* the MediaInfo rows of media m
InfoOf(store, m) == {i \in store.info : i[1] = m}

\* C14: the MediaInfo rows of a file are deleted only in a step taken when both
\* unlinks have succeeded (no unlink pending, none failed, no file of it left
\* on disk), the Media row only when its MediaInfo rows are gone; and once an
\* unlink has failed with an error other than a missing file, deleteMedia has
\* failed, the Media row is in the store and its MediaInfo rows stay as they are.
C14_DeletionOrdered ==
    [][\A m \in DOMAIN del :
          /\ InfoOf(mediaStore', m) # InfoOf(mediaStore, m)
                => /\ del[m].pending = {} /\ del[m].errors = {}
                   /\ \A path \in Paths : <<m, path>> \notin mediaStore.disk
                   /\ m \in DOMAIN mediaStore.rows
          /\ (m \in DOMAIN mediaStore.rows /\ m \notin DOMAIN mediaStore'.rows)
                => /\ InfoOf(mediaStore, m) = {}
                   /\ del[m].pc = "row"
          /\ "EACCES" \in del'[m].errors
                => /\ del'[m].pc = "failed"
                   /\ m \in DOMAIN mediaStore'.rows
                   /\ InfoOf(mediaStore', m) = InfoOf(mediaStore, m)
      ]_vars

\* a request was answered 500 after an unlink of a file with MediaInfo rows
\* failed, and another file of the same request was deleted, rows and all
C14_Witness ==
    /\ delReq.res = 500
    /\ \E m \in DOMAIN del :
          /\ "EACCES" \in del[m].errors
          /\ m \in DOMAIN mediaStore.rows
          /\ InfoOf(mediaStore, m) # {}
    /\ \E m \in DOMAIN del :
          /\ del[m].pc = "done"
          /\ m \notin DOMAIN mediaStore.rows

\* ------------------------------------------------------------ lookup misses
\* C15: a status update that names a revision which is not linked to the
\* given key (a lookup miss) is answered 404.
C15_LookupMissNotFound ==
    [][\A p \in Requests, r \in RevisionIds, k \in KeyIds :
          (findRevisionForKey_join(p, r, k) /\ ~Linked(k, r))
              => last' = Sent("updateStatus", 404)
      ]_vars

\* -------------------------------------------------------------- characters
\* C16: a create-character request that fails (500) leaves no persisted
\* change: no new Character row, no state row with another characterId, no
\* character added to the content.
C16_CreateAllOrNothing ==
    [][(charReq'.op = "create" /\ charReq'.res = 500)
          => /\ Character' = Character
             /\ CharacterState' = CharacterState
             /\ characters' = characters
      ]_vars

\* the premise without the clauses of character id, and without the
\* disjunctions that are left with one clause or none
PurgedPremise(premise, id) ==
    LET kept(d) == {k \in DOMAIN d : d[k].characterId # id}
        surviving == {k \in DOMAIN premise : Cardinality(kept(premise[k])) > 1}
    IN [n \in 1..Cardinality(surviving) |->
           LET d == premise[Nth(surviving, n)]
           IN [m \in 1..Cardinality(kept(d)) |-> d[Nth(kept(d), m)]]]

Purged(chars, id) ==
    [c \in DOMAIN chars |->
        IF chars[c].logicalPremise = Undefined THEN Undefined
        ELSE Defined(PurgedPremise(chars[c].logicalPremise[1], id))]

LogicalPremises(chars) == [c \in DOMAIN chars |-> chars[c].logicalPremise]

\* the condition of the claim as written: the step size differs, or the new
\* min is below the existing one, or the existing max is above the new one
PurgeAsClaimed(new, existing) ==
    \/ new.stepSize # existing.stepSize
    \/ new.min < existing.min
    \/ existing.max > new.max

\* the amended condition: the step size differs, or the existing min is below
\* the new one, or the existing max is above the new one
PurgeWhenNarrowed(new, existing) ==
    \/ new.stepSize # existing.stepSize
    \/ existing.min < new.min
    \/ existing.max > new.max

\* the step is a successful update of character i, a numerical one, whose
\* values are then those of the request
NumericalUpdate(i) ==
    /\ charReq'.op = "update"
    /\ charReq'.res = 200
    /\ charReq'.id = characters[i].id
    /\ ~characters[i].states.array

StateIdsOf(list) == {list[i].id : i \in DOMAIN list}

\* C19: a successful update of a multistate character to new states that
\* differ from its previous ones leaves exactly the previous statements, in
\* order, without those whose state is a previous state that is not a new one.
C19_StatementCleanup ==
    [][\A i \in DOMAIN characters :
          (/\ charReq'.op = "update"
           /\ charReq'.res = 200
           /\ charReq'.id = characters[i].id
           /\ characters[i].states.array
           /\ characters'[i].states # characters[i].states)
              => statements' = SelectSeq(statements, LAMBDA statement :
                     statement.state \notin
                         (StateIdsOf(characters[i].states.list)
                              \ StateIdsOf(characters'[i].states.list)))
      ]_vars

\* an update removed one of two statements
C19_Witness ==
    /\ charReq = [CharRes("update", 1, 200) EXCEPT !.removed = 1]
    /\ Len(statements) = 1

\* C20: every character of the content whose states is a list has at least
\* two states.
C20_ListHasTwoStates ==
    \A c \in DOMAIN characters :
        characters[c].states.array => Len(characters[c].states.list) >= 2

\* ----------------------------------------------------------- concurrent edits
\* the steps of request p, an edit that started from revision req[p].baseId
EditStepOf(p) == req[p].baseId # 0 /\ req'[p] # req[p]

\* C21: concurrent edits that start from the same revision of a key each
\* create their own revision: every step of an edit request leaves the key's
\* pointer and the base revision's row (content, media, status) unchanged,
\* its Revision.create adds exactly one row, its Revisions.create adds exactly
\* one join row, and no other step of it adds a row.
C21_EditsAddOwnRevision ==
    [][\A p \in Requests :
        EditStepOf(p)
            => /\ Key' = Key
               /\ Revision'[req[p].baseId] = Revision[req[p].baseId]
               /\ Len(Revision') = Len(Revision)
                      + (IF req[p].pc = "cr_create" THEN 1 ELSE 0)
               /\ Cardinality(Revisions' \ Revisions)
                      = (IF req[p].pc = "cr_link" THEN 1 ELSE 0)
               /\ Revisions \subseteq Revisions'
    ]_vars

\* ------------------------------------------------------------------ taxon names
\* the value of a language property after a request body field was written
Written(result, property, language) ==
    /\ result[property] # <<>>
    /\ language \in DOMAIN result[property][1]

\* what a field of the body leaves in the taxon: its value when it is given
\* and not empty, else what was there
FieldAsRequested(taxon, result, body, field, property, language) ==
    IF Truthy(body, field)
    THEN Written(result, property, language)
         /\ result[property][1][language] = body[field]
    ELSE IF Written(taxon, property, language)
    THEN Written(result, property, language)
         /\ result[property][1][language] = taxon[property][1][language]
    ELSE ~Written(result, property, language)

\* C22: when another taxon already uses the target scientificName, ignoring
\* case, modifyTaxonNames returns invalid and leaves the taxon's
\* scientificName unchanged, and every vernacular name and description the
\* request supplies (a field that is not empty) is still written to the taxon
\* object, the other language of each property staying as it was.
C22_PartialWriteOnConflict ==
    (namesCall # NoNamesCall
        /\ NameOfOther(taxa, namesCall.body[1].scientificName, namesCall.taxon[1].id))
    => LET taxon == namesCall.taxon[1]
           result == namesCall.result[1]
           body == namesCall.body[1]
       IN /\ namesCall.valid = FALSE
          /\ result.scientificName = taxon.scientificName
          /\ result.id = taxon.id
          /\ FieldAsRequested(taxon, result, body, "vernacularNameNo", "vernacularName", "no")
          /\ FieldAsRequested(taxon, result, body, "vernacularNameEn", "vernacularName", "en")
          /\ FieldAsRequested(taxon, result, body, "descriptionNo", "description", "no")
          /\ FieldAsRequested(taxon, result, body, "descriptionEn", "description", "en")

\* a rename of taxon 2 to the name of taxon 1 in other case, with a Norwegian
\* vernacular name and an English description: invalid, and both were written
C22_Witness ==
    /\ namesCall # NoNamesCall
    /\ namesCall.taxon[1].id = 2
    /\ namesCall.body[1].scientificName = "A"
    /\ Truthy(namesCall.body[1], "vernacularNameNo")
    /\ Truthy(namesCall.body[1], "descriptionEn")
    /\ namesCall.taxon[1].vernacularName = <<>>
    /\ namesCall.taxon[1].description # <<>>
    /\ namesCall.valid = FALSE
    /\ namesCall.result[1] # namesCall.taxon[1]

\* -------------------------------------------------------------- taxon updates
\* C23: the transient parentId is never persisted: in every revision the
\* update-taxon operation creates, no taxon object at any depth of
\* content.taxa carries a parentId, whether or not the request reparented.
C23_ParentIdNeverPersisted ==
    \A i \in DOMAIN Flatten(taxa) : Flatten(taxa)[i].parentId = 0

\* ------------------------------------------------- premises of a character
\* C24: removeCharacterPremises takes the clauses of the given character out
\* of every disjunction and drops every disjunction left with at most one
\* clause; a premise that was an array stays an array, also when exactly one
\* disjunction or none remains, and an undefined premise stays undefined.
C24_CharacterPremisesKeptDefined ==
    [][\A i \in DOMAIN characters :
          (NumericalUpdate(i)
              /\ PurgeWhenNarrowed(characters'[i].states, characters[i].states))
              => \A c \in DOMAIN characters :
                    IF characters[c].logicalPremise = Undefined
                    THEN characters'[c].logicalPremise = Undefined
                    ELSE /\ characters'[c].logicalPremise # Undefined
                         /\ LET id == characters[i].id
                                before == characters[c].logicalPremise[1]
                                after == characters'[c].logicalPremise[1]
                            IN /\ after = PurgedPremise(before, id)
                               /\ \A d \in DOMAIN after :
                                      /\ Len(after[d]) > 1
                                      /\ \A k \in DOMAIN after[d] :
                                             after[d][k].characterId # id
      ]_vars

\* an update of the numerical character 2 took its clauses out of the premise
\* of character 1, and exactly one disjunction of it is left
C24_Witness ==
    /\ charReq = [CharRes("update", 2, 200) EXCEPT !.purged = TRUE]
    /\ characters[1].logicalPremise # Undefined
    /\ Len(characters[1].logicalPremise[1]) = 1

\* ------------------------------------------------------------ current revision
\* C25: in every reachable state a key's revisionId, when set, references a
\* revision whose status is ACCEPTED, for every interleaving of the read and
\* write steps of createRevision, the status update and the key update.
C25_CurrentRevisionAccepted ==
    \A k \in DOMAIN Key :
        Key[k].revisionId # 0 => Revision[Key[k].revisionId].status = "ACCEPTED"

\* C26: the update-taxon operation never loses a taxon: whatever the tree,
\* the taxon and the requested parentId, every taxon id that is in the tree
\* before the request is in the tree of the revision it creates.
C26_UpdateLosesNoTaxon ==
    [][(Taxon' = Taxon /\ taxonRes' = 200)
          => \A id \in TaxonIds :
                 Occurrences(taxa, id) > 0 => Occurrences(taxa', id) > 0
    ]_vars

\* --------------------------------------------------- premises left untouched
\* a clause of the premise is on one of the states of the list
References(premise, states) ==
    /\ premise # Undefined
    /\ \E d \in DOMAIN premise[1] : \E k \in DOMAIN premise[1][d] :
           \E n \in DOMAIN states : premise[1][d][k].stateId = states[n]

\* C27: the state-premise cleanup changes only premises that reference a
\* removed state: a character none of whose clauses is on a state of the
\* request's list has the same logicalPremise after the request as before.
C27_OnlyReferencingPremisesChange ==
    [][putStates(statesReq'.states)
          => \A c \in DOMAIN characters :
                 ~References(characters[c].logicalPremise, statesReq'.states)
                     => characters'[c].logicalPremise = characters[c].logicalPremise
      ]_vars

\* ---------------------------------------------------------- media attachments
\* the media ids of a list of media elements
Attached(mediaElements) == {mediaElements[i] : i \in DOMAIN mediaElements}

\* C28: no attachment is lost under concurrency: whenever an attach request
\* writes the revision back, the revision afterwards holds the request's own
\* media element and every element the stored revision held before the write.
C28_NoAttachmentLost ==
    [][\A p \in Requests :
          (req[p].pc = "am_update" /\ req'[p].pc = "idle")
              => (Attached(Revision[req[p].revisionId].mediaElements)
                      \cup {req[p].mediaId})
                   \subseteq Attached(Revision'[req[p].revisionId].mediaElements)
      ]_vars

\* ------------------------------------------------- statements of a moved taxon
\* C29: the update-taxon operation removes the statements of the updated
\* taxon only when the requested parentId differs from the taxon's current
\* parent: a request that names the current parent (0 for a root taxon) or
\* carries no parentId leaves content.statements unchanged, and the statements
\* of other taxa are never removed.
C29_StatementsOfMovedTaxon ==
    [][\A taxonId \in TaxonIds, reparent \in BOOLEAN, parentId \in 0..MaxTaxa,
          asString \in BOOLEAN :
          putTaxon_body(taxonId, CurrentName(taxa, taxonId), reparent, parentId, asString)
              => /\ statements' \in {statements, FilterTaxonStatements(statements, taxonId)}
                 /\ (~reparent \/ parentId \in ParentsOf(taxa, 0, taxonId))
                        => statements' = statements
      ]_vars

\* -------------------------------------------------------------- key permissions
\* the user created the key
IsCreator(user, keyId) ==
    keyId \in DOMAIN KeyInfo /\ KeyInfo[keyId].createdBy = user

\* the user is a listed editor of the key
IsEditor(user, keyId) == [keyId |-> keyId, userId |-> user] \in Editors

\* the user's role grants the permission and the key has a workgroupId, not
\* null, that is one of the user's workgroups
GrantedInWorkgroup(user, permission, keyId) ==
    /\ permission \in User[user].permissions
    /\ keyId \in DOMAIN KeyInfo
    /\ KeyInfo[keyId].workgroupId # 0
    /\ KeyInfo[keyId].workgroupId \in User[user].workgroups

MayPass(user, permission, keyId) ==
    /\ user # 0
    /\ \/ IsCreator(user, keyId)
       \/ permission = "EDIT_KEY" /\ IsEditor(user, keyId)
       \/ GrantedInWorkgroup(user, permission, keyId)

\* C30: isPermittedKey lets a request for permission P on key K through only
\* if the user created K, or P is EDIT_KEY and the user is a listed editor of
\* K, or the user's role grants P and K has a workgroupId, not null, that is
\* one of the user's workgroups; in every other case, also when K does not
\* exist, the request ends with 403 and the handler does not run.
C30_PermittedKey ==
    auth.permission # "none"
        => /\ auth.next => MayPass(auth.user, auth.permission, auth.keyId)
           /\ ~MayPass(auth.user, auth.permission, auth.keyId)
                  => (auth.res = 403 /\ ~auth.next)

\* a request of a user who neither created the key nor is an editor of it was
\* let through on the role and the workgroup of the key
C30_Witness ==
    /\ auth.next
    /\ auth.user = 1
    /\ auth.permission = "PUBLISH_KEY"
    /\ ~IsCreator(1, auth.keyId)
    /\ ~IsEditor(1, auth.keyId)
    /\ GrantedInWorkgroup(1, "PUBLISH_KEY", auth.keyId)

====
